---------------------------- MODULE Spec2Model ----------------------------
(***************************************************************************)
(* A model of gpt_wiki_translator: the section chunker (chunking.py), the  *)
(* template masking engine and the protected-value restorer                *)
(* (wikitext_parser.py), the page pipeline (translation_pipeline.py), the  *)
(* interwiki link editor (mediawiki_client.py) and the interwiki           *)
(* synchronisation (scripts/sync_interwiki.py).  Texts are sequences of    *)
(* one-character strings, so that splitting, stripping, joining and        *)
(* replacing are computed the way the Python code computes them.           *)
(***************************************************************************)
EXTENDS Naturals, Integers, Sequences, FiniteSets, TLC

VARIABLES
    wikitext,      \* create_chunks: the input text
    max_tokens,    \* create_chunks: the budget
    chunks,        \* create_chunks: the returned list
    chunk_pc,      \* "idle" | "start" | "done"
    doc,           \* masking: the parsed document (mwparserfromhell.parse)
    masked,        \* mask_templates_for_translation: the masked text
    mapping,       \* mask_templates_for_translation: placeholder -> original
    unmasked,      \* restore_masked_templates: the returned text
    pending,       \* placeholders of the mapping not yet replaced, any order
    replaced,      \* the masked text with the others replaced, any order
    mask_pc,       \* "idle" | "start" | "masked" | "done"
    original,      \* restoration: the parsed original text
    translated,    \* restoration: the parsed translated text
    restored_code, \* trans_code after restore_protected_template_params
    restored,      \* restore_protected_template_params: the returned text
    restored_again,\* the text returned for (original, restored)
    restore_pc,    \* "idle" | "start" | "once" | "twice"
    ex_orig,       \* fallbacks: the document the first text stands for
    ex_trans,      \* fallbacks: the document the translated text stands for
    ex_orig_fails, \* mwparserfromhell.parse raises on the first text
    ex_trans_fails,\* mwparserfromhell.parse raises on the translated text
    ex_refs,       \* extract_json_template_params: the returned list
    ex_mask,       \* mask_templates_for_translation: the returned pair
    ex_restored,   \* restore_protected_template_params: the returned text
    ex_pc,         \* "idle" | "start" | "extracted" | "masked" | "done"
    json_doc,      \* sub-resources: the parsed source wikitext
    ai_mode,       \* sub-resources: what the transformation does to a text
    json_refs,     \* json_refs of process_single_page
    json_placeholder_mapping, \* placeholder -> target path
    json_chunks,   \* the chunks handed to translate_chunk
    new_wikitext,  \* the final text of process_single_page
    json_pc,       \* "idle" | "start" | "replaced" | "chunked" | "done"
    force,         \* TranslationPipeline.force
    dry_run,       \* TranslationPipeline.dry_run
    langlinks,     \* the languages the source page has a langlink for
    target_state,  \* the computed target title on the target wiki
    has_wikitext,  \* fetch_page_wikitext(title) is not None
    n_json,        \* the number of Base/Sub.json references of the page
    marker_present,\* the source page already holds the interwiki marker
    target_title,  \* target_title of process_single_page
    calls,         \* the calls issued to wikis and to the AI, in order
    log_rows,      \* the status of the rows appended to the audit CSV
    source_wiki,   \* the edits made to the source wiki, in order
    target_wiki,   \* the edits made to the target wiki, in order
    other_wiki,    \* the edits made to the other-language wikis, in order
    page_pc,       \* the position in process_single_page
    page_title,    \* the title process_single_page is called with
    steps,         \* translation path: the steps taken, in order
    wikitext_with_placeholders, \* translation path: the text of line 190-193
    masked_wikitext,   \* translation path: the text of line 196
    template_mapping,  \* translation path: the mapping of line 196
    translated_chunks, \* translation path: the list of lines 204-207
    new_wikitext_masked, \* translation path: the text of line 209
    unmasked_wikitext, \* translation path: new_wikitext after line 211
    restored_wikitext, \* translation path: new_wikitext after line 213
    chunk_budget,      \* translation path: max_tokens of line 199
    lk_page,           \* interwiki link: the page, [exists, text]
    interwiki_marker,  \* interwiki link: the marker to add
    lk_results,        \* interwiki link: what each call did, in order
    lk_history,        \* interwiki link: the page text after each call
    sync_page,         \* ensure_links_on_page: the page, [exists, text]
    sync_required,     \* ensure_links_on_page: required, lang -> title
    sync_self_lang,    \* ensure_links_on_page: self_lang
    sync_dry_run,      \* ensure_links_on_page: dry_run
    sync_prefixes,     \* get_valid_interwiki_prefixes of the page's wiki
    sync_results,      \* ensure_links_on_page: [returned, edits] of each call
    sync_history,      \* ensure_links_on_page: the page after each call
    page_status,       \* the wikis: (lang, title) -> "missing" | "page" | "redirect"
    page_langlinks,    \* the wikis: (lang, title) -> the langlinks of the page
    seed_title,        \* build_cluster: seed_title
    cluster,           \* build_cluster: cluster, lang -> title
    to_visit,          \* build_cluster: to_visit
    visited,           \* build_cluster: visited
    expanded,          \* the pairs that passed the visited test, in order
    enqueued,          \* the pairs appended to to_visit in the loop, in order
    cluster_pc         \* "idle" | "start" | "loop" | "done"

chunkVars == <<wikitext, max_tokens, chunks, chunk_pc>>
maskVars == <<doc, masked, mapping, unmasked, pending, replaced, mask_pc>>
restoreVars == <<original, translated, restored_code, restored, restored_again,
                 restore_pc>>
extractVars == <<ex_orig, ex_trans, ex_orig_fails, ex_trans_fails, ex_refs, ex_mask,
                 ex_restored, ex_pc>>
jsonVars == <<json_doc, ai_mode, json_refs, json_placeholder_mapping, json_chunks,
              new_wikitext, json_pc>>
pageVars == <<force, dry_run, langlinks, target_state, has_wikitext, n_json,
              marker_present, target_title, calls, log_rows, source_wiki, target_wiki,
              other_wiki, page_pc, page_title>>
orderVars == <<steps, wikitext_with_placeholders, masked_wikitext, template_mapping,
               translated_chunks, new_wikitext_masked, unmasked_wikitext,
               restored_wikitext, chunk_budget>>
linkVars == <<lk_page, interwiki_marker, lk_results, lk_history>>
\* the groups of the parts modelled after the translation path
syncVars == <<sync_page, sync_required, sync_self_lang, sync_dry_run, sync_prefixes,
              sync_results, sync_history>>
clusterVars == <<page_status, page_langlinks, seed_title, cluster, to_visit, visited,
                 expanded, enqueued, cluster_pc>>
laterVars == <<linkVars, syncVars, clusterVars>>
otherVars == <<orderVars, laterVars>>
\* what the translation path leaves alone, besides the first groups
besideOrder == <<laterVars>>
\* the groups of the parts modelled up to the translation path
earlierVars == <<chunkVars, maskVars, restoreVars, extractVars, jsonVars, pageVars,
                 orderVars>>
vars == <<wikitext, max_tokens, chunks, chunk_pc,
          doc, masked, mapping, unmasked, pending, replaced, mask_pc,
          original, translated, restored_code, restored, restored_again, restore_pc,
          ex_orig, ex_trans, ex_orig_fails, ex_trans_fails, ex_refs, ex_mask,
          ex_restored, ex_pc,
          json_doc, ai_mode, json_refs, json_placeholder_mapping, json_chunks,
          new_wikitext, json_pc,
          force, dry_run, langlinks, target_state, has_wikitext, n_json,
          marker_present, target_title, calls, log_rows, source_wiki, target_wiki,
          other_wiki, page_pc, page_title, otherVars>>

(***************************************************************************)
(* Bounds of the model.                                                    *)
(***************************************************************************)
MaxLines == 4
MaxBudget == 6
MaxNodes == 2

(***************************************************************************)
(* Characters and strings.                                                 *)
(***************************************************************************)
NL == "\n"
EQ == "="

\* str.isspace() on the characters the model uses
IsWS(c) == c \in {" ", "\n", "\t"}

Min(a, b) == IF a <= b THEN a ELSE b

\* s[i:] with a 1-based first index
Tail_(s, i) == SubSeq(s, i, Len(s))

RECURSIVE LStrip(_)
LStrip(s) == IF s # <<>> /\ IsWS(s[1]) THEN LStrip(Tail(s)) ELSE s

RECURSIVE RStrip(_)
RStrip(s) == IF s # <<>> /\ IsWS(s[Len(s)]) THEN RStrip(SubSeq(s, 1, Len(s) - 1)) ELSE s

\* str.strip()
Strip(s) == RStrip(LStrip(s))

\* sep.join(parts)
RECURSIVE Join(_, _)
Join(parts, sep) ==
    IF parts = <<>> THEN <<>>
    ELSE IF Len(parts) = 1 THEN parts[1]
    ELSE parts[1] \o sep \o Join(Tail(parts), sep)

\* sub occurs in s at (1-based) position i
OccursAt(s, sub, i) ==
    /\ i >= 1
    /\ i + Len(sub) - 1 <= Len(s)
    /\ SubSeq(s, i, i + Len(sub) - 1) = sub

\* `sub in s`
IsSubstr(sub, s) == \E i \in 1..(Len(s) + 1) : OccursAt(s, sub, i)

\* str.find(sub, from): the first position >= from where sub occurs, 0 when none
Find(s, sub, from) ==
    LET hits == {i \in from..(Len(s) + 1) : OccursAt(s, sub, i)}
    IN  IF hits = {} THEN 0 ELSE CHOOSE i \in hits : \A j \in hits : i <= j

\* str.split(sep) for a non-empty sep
RECURSIVE Split(_, _)
Split(s, sep) ==
    LET i == Find(s, sep, 1)
    IN  IF i = 0 THEN <<s>>
        ELSE <<SubSeq(s, 1, i - 1)>> \o Split(Tail_(s, i + Len(sep)), sep)

\* str.replace(old, new) for a non-empty old: leftmost occurrences, not overlapping
RECURSIVE Replace(_, _, _)
Replace(s, old, new) ==
    LET i == Find(s, old, 1)
    IN  IF i = 0 THEN s
        ELSE SubSeq(s, 1, i - 1) \o new \o Replace(Tail_(s, i + Len(old)), old, new)

(***************************************************************************)
(* chunking.py                                                             *)
(***************************************************************************)
\* estimate_tokens: len(text) // 3
estimate_tokens(text) == Len(text) \div 3

\* the number of consecutive "=" of s from position p on
RECURSIVE EqRun(_, _)
EqRun(s, p) == IF p <= Len(s) /\ s[p] = EQ THEN 1 + EqRun(s, p + 1) ELSE 0

\* the number of consecutive whitespace characters of s from position p on
RECURSIVE WSRun(_, _)
WSRun(s, p) == IF p <= Len(s) /\ IsWS(s[p]) THEN 1 + WSRun(s, p + 1) ELSE 0

\* ^ under re.MULTILINE: the start of the text or just after a newline
AtBol(s, p) == p = 1 \/ (p >= 2 /\ p <= Len(s) + 1 /\ s[p - 1] = NL)

\* $ under re.MULTILINE: the end of the text or just before a newline
AtEol(s, q) == q = Len(s) + 1 \/ (q <= Len(s) /\ s[q] = NL)

\* heading_pattern = ^(={2,6})\s*(.+?)\s*\1\s*$ tried at position p with
\* n "=" for group 1, a blanks, a title of t characters, b blanks, the n "="
\* of \1 and c blanks
HeadingFits(s, p, n, a, t, b, c) ==
    LET ts == p + n + a          \* first character of the title
        cs == ts + t + b         \* first character of \1
        q  == cs + n + c         \* the position after the match
    IN  /\ ts + t - 1 <= Len(s)
        /\ \A k \in ts..(ts + t - 1) : s[k] # NL      \* . matches no newline
        /\ b <= WSRun(s, ts + t)
        /\ cs + n - 1 <= Len(s)
        /\ \A k \in cs..(cs + n - 1) : s[k] = EQ
        /\ c <= WSRun(s, cs + n)
        /\ AtEol(s, q)

\* the number of consecutive characters other than a newline from position p on
RECURSIVE LineRun(_, _)
LineRun(s, p) == IF p <= Len(s) /\ s[p] # NL THEN 1 + LineRun(s, p + 1) ELSE 0

\* The regex engine backtracks over heading_pattern in this order: group 1
\* greedy, \s* greedy, the title lazy, \s* greedy, \s* greedy; the first
\* success in that order is the match.  Each operator below settles one of
\* the five choices, given the ones before it.

\* the blanks after \1 can be chosen, the rest being chosen
FitsC(s, p, n, a, t, b) ==
    \E c \in 0..WSRun(s, p + n + a + t + b + n) : HeadingFits(s, p, n, a, t, b, c)

FitsB(s, p, n, a, t) == \E b \in 0..WSRun(s, p + n + a + t) : FitsC(s, p, n, a, t, b)

FitsT(s, p, n, a) == \E t \in 1..LineRun(s, p + n + a) : FitsB(s, p, n, a, t)

FitsA(s, p, n) == \E a \in 0..WSRun(s, p + n) : FitsT(s, p, n, a)

FitsN(s, p) == \E n \in 2..Min(6, EqRun(s, p)) : FitsA(s, p, n)

\* the end (exclusive) of the match, the choices up to b being made
EndC(s, p, n, a, t, b) ==
    LET c == CHOOSE x \in 0..WSRun(s, p + n + a + t + b + n) :
                 /\ HeadingFits(s, p, n, a, t, b, x)
                 /\ \A y \in 0..WSRun(s, p + n + a + t + b + n) :
                        HeadingFits(s, p, n, a, t, b, y) => x >= y
    IN  p + n + a + t + b + n + c

EndB(s, p, n, a, t) ==
    EndC(s, p, n, a, t,
         CHOOSE x \in 0..WSRun(s, p + n + a + t) :
             /\ FitsC(s, p, n, a, t, x)
             /\ \A y \in 0..WSRun(s, p + n + a + t) : FitsC(s, p, n, a, t, y) => x >= y)

EndT(s, p, n, a) ==
    EndB(s, p, n, a,
         CHOOSE x \in 1..LineRun(s, p + n + a) :
             /\ FitsB(s, p, n, a, x)
             /\ \A y \in 1..LineRun(s, p + n + a) : FitsB(s, p, n, a, y) => x <= y)

EndA(s, p, n) ==
    EndT(s, p, n,
         CHOOSE x \in 0..WSRun(s, p + n) :
             /\ FitsT(s, p, n, x)
             /\ \A y \in 0..WSRun(s, p + n) : FitsT(s, p, n, y) => x >= y)

\* The end (exclusive) of the match of heading_pattern at p, 0 when there is
\* none
HeadingMatchEnd(s, p) ==
    IF ~AtBol(s, p) \/ ~FitsN(s, p) THEN 0
    ELSE EndA(s, p,
              CHOOSE x \in 2..Min(6, EqRun(s, p)) :
                  /\ FitsA(s, p, x)
                  /\ \A y \in 2..Min(6, EqRun(s, p)) : FitsA(s, p, y) => x >= y)

\* heading_pattern.finditer(wikitext) from position pos on: the matches as
\* <<start, end>> (end exclusive), left to right and not overlapping
RECURSIVE FindHeadings(_, _)
FindHeadings(s, pos) ==
    LET starts == {p \in pos..Len(s) : HeadingMatchEnd(s, p) # 0}
    IN  IF starts = {} THEN <<>>
        ELSE LET p == CHOOSE x \in starts : \A y \in starts : x <= y
                 e == HeadingMatchEnd(s, p)
             IN  <<<<p, e>>>> \o FindHeadings(s, e)

\* the loop of split_by_sections over the matches
RECURSIVE SectionsLoop(_, _, _, _)
SectionsLoop(s, matches, last_end, last_heading) ==
    IF matches = <<>>
    THEN <<[heading |-> last_heading, content |-> Strip(Tail_(s, last_end))]>>
    ELSE LET m == matches[1]
             content == Strip(SubSeq(s, last_end, m[1] - 1))
             sec == IF content # <<>> \/ last_heading # <<>>
                    THEN <<[heading |-> last_heading, content |-> content]>>
                    ELSE <<>>
         IN  sec \o SectionsLoop(s, Tail(matches), m[2], SubSeq(s, m[1], m[2] - 1))

\* split_by_sections
split_by_sections(s) == SectionsLoop(s, FindHeadings(s, 1), 1, <<>>)

\* f"{heading}\n{content}" if heading else content
SectionText(sec) ==
    IF sec.heading # <<>> THEN sec.heading \o <<NL>> \o sec.content ELSE sec.content

PARSEP == <<NL, NL>>

\* PackParagraph with `para_chunk_parts = []` where the code has `[para]`:
\* the paragraph that opens a new chunk is lost
PackParagraph_dropping(st, heading, para, maxt) ==
    LET est == estimate_tokens(para)
    IN  IF st.tokens + est > maxt
        THEN LET flushed == IF st.parts # <<>>
                            THEN Append(st.chunks, Join(st.parts, PARSEP))
                            ELSE st.chunks
             IN  IF est > maxt
                 THEN [st EXCEPT !.chunks = Append(flushed,
                                    IF heading # <<>> THEN heading \o <<NL>> \o para
                                                      ELSE para)]
                 ELSE [chunks |-> flushed, parts |-> <<>>, tokens |-> 0]
        ELSE [st EXCEPT !.parts = Append(st.parts, para), !.tokens = st.tokens + est]

\* One turn of the paragraph loop of an oversize section; st is
\* [chunks, parts, tokens] for chunks, para_chunk_parts, para_tokens
PackParagraph(st, heading, para, maxt) ==
    LET est == estimate_tokens(para)
    IN  IF st.tokens + est > maxt
        THEN LET flushed == IF st.parts # <<>>
                            THEN Append(st.chunks, Join(st.parts, PARSEP))
                            ELSE st.chunks
             IN  IF est > maxt
                 THEN \* force include; para_chunk_parts is left as it is
                      [st EXCEPT !.chunks = Append(flushed,
                                    IF heading # <<>> THEN heading \o <<NL>> \o para
                                                      ELSE para)]
                 ELSE [chunks |-> flushed, parts |-> <<para>>, tokens |-> est]
        ELSE [st EXCEPT !.parts = Append(st.parts, para), !.tokens = st.tokens + est]

RECURSIVE ParagraphLoop(_, _, _, _)
ParagraphLoop(st, heading, paragraphs, maxt) ==
    IF paragraphs = <<>> THEN st
    ELSE ParagraphLoop(PackParagraph(st, heading, paragraphs[1], maxt),
                       heading, Tail(paragraphs), maxt)

\* PackSection with `current_tokens + section_tokens >= max_tokens` where the
\* code has `>`: a section that exactly fills the budget opens a new chunk
PackSection_strict(st, sec, maxt) ==
    LET section_text == SectionText(sec)
        section_tokens == estimate_tokens(section_text)
    IN  IF section_tokens > maxt
        THEN LET saved == IF st.parts # <<>>
                          THEN [chunks |-> Append(st.chunks, Join(st.parts, PARSEP)),
                                parts |-> <<>>, tokens |-> 0]
                          ELSE st
                 p0 == [chunks |-> saved.chunks,
                        parts |-> IF sec.heading # <<>> THEN <<sec.heading>> ELSE <<>>,
                        tokens |-> IF sec.heading # <<>>
                                   THEN estimate_tokens(sec.heading) ELSE 0]
                 p1 == ParagraphLoop(p0, sec.heading, Split(sec.content, PARSEP), maxt)
                 out == IF p1.parts # <<>>
                        THEN Append(p1.chunks, Join(p1.parts, PARSEP))
                        ELSE p1.chunks
             IN  [chunks |-> out, parts |-> saved.parts, tokens |-> saved.tokens]
        ELSE IF st.tokens + section_tokens >= maxt
        THEN [chunks |-> IF st.parts # <<>>
                         THEN Append(st.chunks, Join(st.parts, PARSEP))
                         ELSE st.chunks,
              parts |-> <<section_text>>, tokens |-> section_tokens]
        ELSE [st EXCEPT !.parts = Append(st.parts, section_text),
                        !.tokens = st.tokens + section_tokens]

\* One turn of the section loop; st is [chunks, parts, tokens] for chunks,
\* current_chunk_parts, current_tokens
PackSection(st, sec, maxt) ==
    LET section_text == SectionText(sec)
        section_tokens == estimate_tokens(section_text)
    IN  IF section_tokens > maxt
        THEN LET saved == IF st.parts # <<>>
                          THEN [chunks |-> Append(st.chunks, Join(st.parts, PARSEP)),
                                parts |-> <<>>, tokens |-> 0]
                          ELSE st
                 p0 == [chunks |-> saved.chunks,
                        parts |-> IF sec.heading # <<>> THEN <<sec.heading>> ELSE <<>>,
                        tokens |-> IF sec.heading # <<>>
                                   THEN estimate_tokens(sec.heading) ELSE 0]
                 p1 == ParagraphLoop(p0, sec.heading, Split(sec.content, PARSEP), maxt)
                 out == IF p1.parts # <<>>
                        THEN Append(p1.chunks, Join(p1.parts, PARSEP))
                        ELSE p1.chunks
             IN  [chunks |-> out, parts |-> saved.parts, tokens |-> saved.tokens]
        ELSE IF st.tokens + section_tokens > maxt
        THEN [chunks |-> IF st.parts # <<>>
                         THEN Append(st.chunks, Join(st.parts, PARSEP))
                         ELSE st.chunks,
              parts |-> <<section_text>>, tokens |-> section_tokens]
        ELSE [st EXCEPT !.parts = Append(st.parts, section_text),
                        !.tokens = st.tokens + section_tokens]

RECURSIVE SectionLoop(_, _, _)
SectionLoop(st, sections, maxt) ==
    IF sections = <<>> THEN st
    ELSE SectionLoop(PackSection(st, sections[1], maxt), Tail(sections), maxt)

\* create_chunks returning `chunks` as the section loop left it: without the
\* flush of the last chunk and without the `[wikitext]` fallback
create_chunks_unflushed(text, maxt) ==
    SectionLoop([chunks |-> <<>>, parts |-> <<>>, tokens |-> 0],
                split_by_sections(text), maxt).chunks

\* create_chunks
create_chunks(text, maxt) ==
    LET sections == split_by_sections(text)
    IN  IF sections = <<>> THEN <<text>>
        ELSE LET st == SectionLoop([chunks |-> <<>>, parts |-> <<>>, tokens |-> 0],
                                   sections, maxt)
                 out == IF st.parts # <<>>
                        THEN Append(st.chunks, Join(st.parts, PARSEP))
                        ELSE st.chunks
             IN  IF out # <<>> THEN out ELSE <<text>>

(***************************************************************************)
(* wikitext_parser.py: parsed documents.                                   *)
(*                                                                         *)
(* mwparserfromhell.parse gives a Wikicode: a list of nodes.  A node of    *)
(* the model is a text node or a template with a name and a list of        *)
(* parameters, each with a name, a value (a Wikicode again) and showkey    *)
(* (False for a positional parameter, whose name is its number).           *)
(***************************************************************************)
TextNode(t) == [kind |-> "text", text |-> t, name |-> <<>>, params |-> <<>>]
Template(n, ps) == [kind |-> "tpl", text |-> <<>>, name |-> n, params |-> ps]
Param(n, v) == [name |-> n, value |-> v, showkey |-> TRUE]
Positional(n, v) == [name |-> n, value |-> v, showkey |-> FALSE]

\* str(wikicode), str(template), str(parameter)
RECURSIVE Serialize(_)
RECURSIVE SerializeParams(_)
SerializeNode(node) ==
    IF node.kind = "text" THEN node.text
    ELSE <<"{", "{">> \o node.name \o SerializeParams(node.params) \o <<"}", "}">>

SerializeParams(ps) ==
    IF ps = <<>> THEN <<>>
    ELSE <<"|">>
         \o (IF ps[1].showkey THEN ps[1].name \o <<"=">> ELSE <<>>)
         \o Serialize(ps[1].value)
         \o SerializeParams(Tail(ps))

Serialize(code) ==
    IF code = <<>> THEN <<>> ELSE SerializeNode(code[1]) \o Serialize(Tail(code))

\* wikicode.filter_templates(): the templates of the document, nested ones
\* included, in document order (a template before those inside it)
RECURSIVE filter_templates(_)
RECURSIVE TemplatesOfParams(_)
TemplatesOfParams(ps) ==
    IF ps = <<>> THEN <<>>
    ELSE filter_templates(ps[1].value) \o TemplatesOfParams(Tail(ps))

filter_templates(code) ==
    IF code = <<>> THEN <<>>
    ELSE (IF code[1].kind = "tpl"
          THEN <<code[1]>> \o TemplatesOfParams(code[1].params)
          ELSE <<>>)
         \o filter_templates(Tail(code))

(***************************************************************************)
(* wikitext_parser.py: masking and unmasking.                              *)
(***************************************************************************)
DigitChar == <<"0", "1", "2", "3", "4", "5", "6", "7", "8", "9">>

\* str(n) of a natural number, as the f-strings format the indices
RECURSIVE Decimal(_)
Decimal(n) ==
    IF n < 10 THEN <<DigitChar[n + 1]>>
    ELSE Decimal(n \div 10) \o <<DigitChar[(n % 10) + 1]>>

OPEN == "⟪"
CLOSE == "⟫"

\* f'⟪TPL_{tpl_index}⟫'
TplPlaceholder(i) == <<OPEN, "T", "P", "L", "_">> \o Decimal(i) \o <<CLOSE>>

\* f'⟪K_{param_index}⟫': the template index is left out
KeyPlaceholder_noTemplateIndex(i, j) == <<OPEN, "K", "_">> \o Decimal(j) \o <<CLOSE>>

\* f'⟪K_{tpl_index}_{param_index}⟫'
KeyPlaceholder(i, j) ==
    <<OPEN, "K", "_">> \o Decimal(i) \o <<"_">> \o Decimal(j) \o <<CLOSE>>

\* mapping[key] = value on a dict
DictPut(d, k, v) == [x \in (DOMAIN d) \cup {k} |-> IF x = k THEN v ELSE d[x]]

\* The loop over node.params: st is [mapping, strings] for mapping and
\* param_strings; j is param_index
RECURSIVE MaskParams(_, _, _, _)
MaskParams(st, ps, i, j) ==
    IF ps = <<>> THEN st
    ELSE LET key_placeholder == KeyPlaceholder(i, j)
         IN  MaskParams(
                 [mapping |-> DictPut(st.mapping, key_placeholder, ps[1].name),
                  strings |-> Append(st.strings,
                                 key_placeholder \o <<"=">> \o Serialize(ps[1].value))],
                 Tail(ps), i, j + 1)

\* One turn of the loop over code.nodes: st is [mapping, out, tpl_index]
MaskNode(st, node) ==
    IF node.kind = "tpl"
    THEN LET tpl_name_placeholder == TplPlaceholder(st.tpl_index)
             m1 == DictPut(st.mapping, tpl_name_placeholder, node.name)
             ps == MaskParams([mapping |-> m1, strings |-> <<>>],
                              node.params, st.tpl_index, 0)
             text == <<"{", "{">> \o tpl_name_placeholder
                     \o (IF ps.strings # <<>>
                         THEN <<"|">> \o Join(ps.strings, <<" ", "|", " ">>)
                         ELSE <<>>)
                     \o <<"}", "}">>
         IN  [mapping |-> ps.mapping, out |-> st.out \o text,
              tpl_index |-> st.tpl_index + 1]
    ELSE [st EXCEPT !.out = st.out \o SerializeNode(node)]

RECURSIVE MaskLoop(_, _)
MaskLoop(st, nodes) ==
    IF nodes = <<>> THEN st ELSE MaskLoop(MaskNode(st, nodes[1]), Tail(nodes))

\* mask_templates_for_translation, of the parsed text: [text, mapping]
mask_templates_for_translation(code) ==
    LET st == MaskLoop([mapping |-> <<>>, out |-> <<>>, tpl_index |-> 0], code)
    IN  [text |-> st.out, mapping |-> st.mapping]

\* ord(c) for the characters of the placeholders
Ord(c) ==
    CASE c = "0" -> 48 [] c = "1" -> 49 [] c = "2" -> 50 [] c = "3" -> 51
      [] c = "4" -> 52 [] c = "5" -> 53 [] c = "6" -> 54 [] c = "7" -> 55
      [] c = "8" -> 56 [] c = "9" -> 57 [] c = "K" -> 75 [] c = "L" -> 76
      [] c = "P" -> 80 [] c = "T" -> 84 [] c = "_" -> 95
      [] c = OPEN -> 10218 [] c = CLOSE -> 10219

\* a < b for two strings, as Python compares them
RECURSIVE StrLess(_, _)
StrLess(a, b) ==
    IF b = <<>> THEN FALSE
    ELSE IF a = <<>> THEN TRUE
    ELSE IF a[1] = b[1] THEN StrLess(Tail(a), Tail(b))
    ELSE Ord(a[1]) < Ord(b[1])

\* the order of sorted(..., key=lambda x: (-len(x), x))
SortsBefore(a, b) == Len(a) > Len(b) \/ (Len(a) = Len(b) /\ StrLess(a, b))

\* sorted(mapping.keys(), key=lambda x: (-len(x), x))
RECURSIVE SortedKeys(_)
SortedKeys(keys) ==
    IF keys = {} THEN <<>>
    ELSE LET first == CHOOSE k \in keys : \A o \in keys \ {k} : SortsBefore(k, o)
         IN  <<first>> \o SortedKeys(keys \ {first})

RECURSIVE ReplaceAll(_, _, _)
ReplaceAll(text, order, m) ==
    IF order = <<>> THEN text
    ELSE ReplaceAll(Replace(text, order[1], m[order[1]]), Tail(order), m)

\* restore_masked_templates
restore_masked_templates(text, m) == ReplaceAll(text, SortedKeys(DOMAIN m), m)

(***************************************************************************)
(* wikitext_parser.py: restoring the protected parameter values.           *)
(***************************************************************************)
PROTECTED_TEMPLATE_PARAMS ==
    { <<"g", "l", "y", "p", "h">>,
      <<"i", "c", "o", "n", "e">>,
      <<"b", "a", "n", "n", "i", "è", "r", "e">>,
      <<"b", "a", "n", "n", "i", "e", "r", "e">>,
      <<"p", "h", "o", "t", "o", " ", "d", "e", " ", "l", "'", "a", "g", "r", "i", "c", "u", "l", "t", "e", "u", "r">>,
      <<"l", "o", "g", "o">>,
      <<"p", "h", "o", "t", "o", " ", "d", "'", "i", "l", "l", "u", "s", "t", "r", "a", "t", "i", "o", "n">>,
      <<"l", "o", "g", "o", " ", "o", "r", "g", "a", "n", "i", "s", "m", "e">>,
      <<"i", "m", "a", "g", "e">>,
      <<"c", "l", "a", "s", "s">>,
      <<"t", "y", "p", "e", " ", "d", "e", " ", "p", "a", "g", "e">>,
      <<"f", "r", "a", "m", "e">>,
      <<"q", "u", "e", "r", "y">> }

UpperChars ==
    <<"A", "B", "C", "D", "E", "F", "G", "H", "I", "J", "K", "L", "M",
      "N", "O", "P", "Q", "R", "S", "T", "U", "V", "W", "X", "Y", "Z",
      "À", "Â", "Ç", "É", "È", "Ê", "Î", "Ô", "Û">>
LowerChars ==
    <<"a", "b", "c", "d", "e", "f", "g", "h", "i", "j", "k", "l", "m",
      "n", "o", "p", "q", "r", "s", "t", "u", "v", "w", "x", "y", "z",
      "à", "â", "ç", "é", "è", "ê", "î", "ô", "û">>

\* str.lower(), one character
ToLower(c) ==
    IF \E i \in 1..Len(UpperChars) : UpperChars[i] = c
    THEN LowerChars[CHOOSE i \in 1..Len(UpperChars) : UpperChars[i] = c]
    ELSE c

AccentedChars == <<"à", "â", "ç", "é", "è", "ê", "î", "ô", "û">>
BaseChars     == <<"a", "a", "c", "e", "e", "e", "i", "o", "u">>

\* unicodedata.normalize('NFD', c) without its characters of category Mn
Unaccent(c) ==
    IF \E i \in 1..Len(AccentedChars) : AccentedChars[i] = c
    THEN BaseChars[CHOOSE i \in 1..Len(AccentedChars) : AccentedChars[i] = c]
    ELSE c

\* _normalize_param_name
normalize_param_name(name) ==
    LET stripped == Strip(name)
    IN  [i \in 1..Len(stripped) |-> Unaccent(ToLower(stripped[i]))]

\* `norm in PROTECTED_TEMPLATE_PARAMS` accepting every name
IsProtected_any(norm) == TRUE

\* `norm in PROTECTED_TEMPLATE_PARAMS`, when the original values are collected
IsProtected(norm) == norm \in PROTECTED_TEMPLATE_PARAMS

\* the key (idx, norm) built from the name as written, not normalized
CollectKey_raw(idx, name) == <<idx, name>>

\* the key (idx, norm) under which an original value is collected
CollectKey(idx, name) == <<idx, normalize_param_name(name)>>

\* The loop over node.params that collects the original values of the
\* template at index idx
RECURSIVE CollectParams(_, _, _)
CollectParams(reg, ps, idx) ==
    IF ps = <<>> THEN reg
    ELSE CollectParams(
             IF IsProtected(normalize_param_name(ps[1].name))
             THEN DictPut(reg, CollectKey(idx, ps[1].name), Serialize(ps[1].value))
             ELSE reg,
             Tail(ps), idx)

\* The loop over enumerate(orig_code.filter_templates())
RECURSIVE CollectTemplates(_, _, _)
CollectTemplates(reg, tpls, idx) ==
    IF tpls = <<>> THEN reg
    ELSE CollectTemplates(CollectParams(reg, tpls[1].params, idx), Tail(tpls), idx + 1)

\* original_values
OriginalValues(orig_code) == CollectTemplates(<<>>, filter_templates(orig_code), 0)

\* the values of the parameters of the templates of a document, nested ones
\* included
ParamValues(code) ==
    LET tpls == filter_templates(code)
    IN  UNION {{tpls[i].params[j].value : j \in 1..Len(tpls[i].params)} :
                  i \in 1..Len(tpls)}

\* parse_anything(text) of `param.value = text`: text is str(value) of a
\* value of the parsed original, and parses back to that value
ParseValue(text, known) == CHOOSE v \in known : Serialize(v) = text

\* the key looked up one template further than the template at hand
LookupKey_shifted(idx, name) == <<idx + 1, normalize_param_name(name)>>

\* the key (idx, norm) looked up for a parameter of the translated text
LookupKey(idx, name) == <<idx, normalize_param_name(name)>>

\* The replacement loop.  The templates of trans_code were listed by
\* filter_templates() before any value was replaced: the template at list
\* index idx has its parameters overwritten; the templates inside a value
\* keep their list indices (next on) and are handled at their turn, which
\* shows in the result only when the value that holds them was not replaced.
RECURSIVE RestoreCode(_, _, _, _)
RECURSIVE RestoreParams(_, _, _, _, _)
RestoreParams(ps, idx, next, reg, known) ==
    IF ps = <<>> THEN <<>>
    ELSE LET key == LookupKey(idx, ps[1].name)
             value == IF key \in DOMAIN reg /\ Serialize(ps[1].value) # reg[key]
                      THEN ParseValue(reg[key], known)
                      ELSE RestoreCode(ps[1].value, next, reg, known)
         IN  <<[ps[1] EXCEPT !.value = value]>>
             \o RestoreParams(Tail(ps), idx,
                              next + Len(filter_templates(ps[1].value)), reg, known)

RestoreCode(code, idx, reg, known) ==
    IF code = <<>> THEN <<>>
    ELSE (IF code[1].kind = "tpl"
          THEN <<[code[1] EXCEPT
                    !.params = RestoreParams(code[1].params, idx, idx + 1, reg, known)]>>
          ELSE <<code[1]>>)
         \o RestoreCode(Tail(code), idx + Len(filter_templates(<<code[1]>>)), reg, known)

\* trans_code as restore_protected_template_params leaves it
RestoredCode(orig_code, trans_code) ==
    LET original_values == OriginalValues(orig_code)
    IN  IF DOMAIN original_values = {} THEN trans_code
        ELSE RestoreCode(trans_code, 0, original_values, ParamValues(orig_code))

\* restore_protected_template_params, of the two parsed texts
restore_protected_template_params(orig_code, trans_code) ==
    Serialize(RestoredCode(orig_code, trans_code))

(***************************************************************************)
(* The inputs of create_chunks: texts of up to MaxLines lines, each line   *)
(* one of LineMenu, and budgets 1..MaxBudget.                              *)
(***************************************************************************)
LineMenu ==
    { <<>>,                                      \* a blank line
      <<" ">>,                                   \* a line of whitespace
      <<"=", "=", "h", "=", "=">>,               \* a level-2 heading
      <<"b", "b", "b", "b">>,                    \* 4 characters: 1 token
      <<"c", "c", "c", "c", "c", "c", "c">> }    \* 7 characters: 2 tokens

Texts ==
    {Join(ls, <<NL>>) : ls \in UNION {[1..n -> LineMenu] : n \in 0..MaxLines}}

\* the chunker is not in use
ChunkIdle ==
    /\ wikitext = <<>>
    /\ max_tokens = 0
    /\ chunks = <<>>
    /\ chunk_pc = "idle"

\* the masking engine is not in use
MaskIdle ==
    /\ doc = <<>>
    /\ masked = <<>>
    /\ mapping = <<>>
    /\ unmasked = <<>>
    /\ pending = {}
    /\ replaced = <<>>
    /\ mask_pc = "idle"

\* the restorer is not in use
RestoreIdle ==
    /\ original = <<>>
    /\ translated = <<>>
    /\ restored_code = <<>>
    /\ restored = <<>>
    /\ restored_again = <<>>
    /\ restore_pc = "idle"

\* the fallbacks are not in use
ExtractIdle ==
    /\ ex_orig = <<>>
    /\ ex_trans = <<>>
    /\ ex_orig_fails = FALSE
    /\ ex_trans_fails = FALSE
    /\ ex_refs = <<>>
    /\ ex_mask = <<>>
    /\ ex_restored = <<>>
    /\ ex_pc = "idle"

\* the sub-resource pass is not in use
JsonIdle ==
    /\ json_doc = <<>>
    /\ ai_mode = "idle"
    /\ json_refs = <<>>
    /\ json_placeholder_mapping = <<>>
    /\ json_chunks = <<>>
    /\ new_wikitext = <<>>
    /\ json_pc = "idle"

\* no page is being processed
PageIdle ==
    /\ force = FALSE
    /\ dry_run = FALSE
    /\ langlinks = {}
    /\ target_state = "idle"
    /\ has_wikitext = FALSE
    /\ n_json = 0
    /\ marker_present = FALSE
    /\ target_title = ""
    /\ calls = <<>>
    /\ log_rows = <<>>
    /\ source_wiki = <<>>
    /\ target_wiki = <<>>
    /\ other_wiki = <<>>
    /\ page_pc = "idle"
    /\ page_title = <<>>

\* the translation path is not being followed
OrderIdle ==
    /\ steps = <<>>
    /\ wikitext_with_placeholders = <<>>
    /\ masked_wikitext = <<>>
    /\ template_mapping = <<>>
    /\ translated_chunks = <<>>
    /\ new_wikitext_masked = <<>>
    /\ unmasked_wikitext = <<>>
    /\ restored_wikitext = <<>>
    /\ chunk_budget = 0

\* add_or_update_interwiki_link is not being called
LinkIdle ==
    /\ lk_page = [exists |-> FALSE, text |-> <<>>]
    /\ interwiki_marker = <<>>
    /\ lk_results = <<>>
    /\ lk_history = <<>>

\* ensure_links_on_page is not being called
SyncIdle ==
    /\ sync_page = [exists |-> FALSE, text |-> <<>>]
    /\ sync_required = <<>>
    /\ sync_self_lang = <<>>
    /\ sync_dry_run = FALSE
    /\ sync_prefixes = {}
    /\ sync_results = <<>>
    /\ sync_history = <<>>

\* build_cluster is not being called
ClusterIdle ==
    /\ page_status = <<>>
    /\ page_langlinks = <<>>
    /\ seed_title = <<>>
    /\ cluster = <<>>
    /\ to_visit = <<>>
    /\ visited = {}
    /\ expanded = <<>>
    /\ enqueued = <<>>
    /\ cluster_pc = "idle"

\* the parts modelled after the translation path are not in use
LaterIdle == LinkIdle /\ SyncIdle /\ ClusterIdle

\* the parts of the program modelled further down are not in use
OtherIdle == OrderIdle /\ LaterIdle

\* the parts of the program modelled up to the translation path are not in use
EarlierIdle ==
    /\ ChunkIdle
    /\ MaskIdle
    /\ RestoreIdle
    /\ ExtractIdle
    /\ JsonIdle
    /\ PageIdle
    /\ OrderIdle

ChunkInit ==
    /\ wikitext \in Texts
    /\ max_tokens \in 1..MaxBudget
    /\ chunks = <<>>
    /\ chunk_pc = "start"
    /\ MaskIdle
    /\ RestoreIdle
    /\ ExtractIdle
    /\ JsonIdle
    /\ PageIdle
    /\ OtherIdle

CreateChunks ==
    /\ chunk_pc = "start"
    /\ chunks' = create_chunks(wikitext, max_tokens)
    /\ chunk_pc' = "done"
    /\ UNCHANGED <<wikitext, max_tokens>>
    /\ UNCHANGED <<maskVars, restoreVars>>
    /\ UNCHANGED <<extractVars, jsonVars, pageVars>>
    /\ UNCHANGED otherVars

SpecChunk == ChunkInit /\ [][CreateChunks]_vars

(***************************************************************************)
(* The inputs of the masking engine: documents of up to MaxNodes nodes,    *)
(* each node one of MaskMenu.                                              *)
(***************************************************************************)
Txt(t) == <<TextNode(t)>>

MaskMenu ==
    { \* x
      TextNode(<<"x">>),
      \* {{Box}}
      Template(<<"B", "o", "x">>, <<>>),
      \* {{Box|ka=v}}
      Template(<<"B", "o", "x">>, <<Param(<<"k", "a">>, Txt(<<"v">>))>>),
      \* {{Box|ka=v|kb=w}}
      Template(<<"B", "o", "x">>, <<Param(<<"k", "a">>, Txt(<<"v">>)),
                                    Param(<<"k", "b">>, Txt(<<"w">>))>>),
      \* {{Box|v}}
      Template(<<"B", "o", "x">>, <<Positional(<<"1">>, Txt(<<"v">>))>>),
      \* {{Box|ka={{Sub|kc=u}}}}
      Template(<<"B", "o", "x">>,
               <<Param(<<"k", "a">>,
                       <<Template(<<"S", "u", "b">>,
                                  <<Param(<<"k", "c">>, Txt(<<"u">>))>>)>>)>>),
      \* a template whose name is the text of a placeholder
      Template(KeyPlaceholder(0, 0), <<Param(<<"k", "a">>, Txt(<<"v">>))>>),
      \* a template with a key that is the text of a placeholder
      Template(<<"B", "o", "x">>, <<Param(TplPlaceholder(0), Txt(<<"v">>))>>) }

MaskDocs == UNION {[1..n -> MaskMenu] : n \in 0..MaxNodes}

MaskInit ==
    /\ doc \in MaskDocs
    /\ masked = <<>>
    /\ mapping = <<>>
    /\ unmasked = <<>>
    /\ pending = {}
    /\ replaced = <<>>
    /\ mask_pc = "start"
    /\ ChunkIdle
    /\ RestoreIdle
    /\ ExtractIdle
    /\ JsonIdle
    /\ PageIdle
    /\ OtherIdle

\* mask_templates_for_translation(wikitext), wikitext being str(doc)
Mask ==
    /\ mask_pc = "start"
    /\ LET r == mask_templates_for_translation(doc)
       IN  /\ masked' = r.text
           /\ mapping' = r.mapping
           /\ pending' = DOMAIN r.mapping
           /\ replaced' = r.text
    /\ mask_pc' = "masked"
    /\ UNCHANGED <<doc, unmasked>>
    /\ UNCHANGED <<chunkVars, restoreVars>>
    /\ UNCHANGED <<extractVars, jsonVars, pageVars>>
    /\ UNCHANGED otherVars

\* restore_masked_templates(masked, mapping)
Unmask ==
    /\ mask_pc = "masked"
    /\ unmasked' = restore_masked_templates(masked, mapping)
    /\ mask_pc' = "done"
    /\ UNCHANGED <<doc, masked, mapping, pending, replaced>>
    /\ UNCHANGED <<chunkVars, restoreVars>>
    /\ UNCHANGED <<extractVars, jsonVars, pageVars>>
    /\ UNCHANGED otherVars

\* one turn of the loop of restore_masked_templates, the placeholders taken
\* in any order
ReplaceOne ==
    /\ mask_pc = "done"
    /\ \E p \in pending :
          /\ replaced' = Replace(replaced, p, mapping[p])
          /\ pending' = pending \ {p}
    /\ UNCHANGED <<doc, masked, mapping, unmasked, mask_pc>>
    /\ UNCHANGED <<chunkVars, restoreVars>>
    /\ UNCHANGED <<extractVars, jsonVars, pageVars>>
    /\ UNCHANGED otherVars

MaskNext == Mask \/ Unmask \/ ReplaceOne

SpecMask == MaskInit /\ [][MaskNext]_vars

(***************************************************************************)
(* The inputs of the restorer: an original and a translated document of up *)
(* to MaxNodes nodes each, the nodes taken from OrigMenu and TransMenu.    *)
(***************************************************************************)
K_image == <<"i", "m", "a", "g", "e">>
K_caption == <<"c", "a", "p", "t", "i", "o", "n">>

OrigMenu ==
    { \* {{Box|image=a|caption=c}}
      Template(<<"B", "o", "x">>, <<Param(K_image, Txt(<<"a">>)),
                                    Param(K_caption, Txt(<<"c">>))>>),
      \* {{Box|Icône=g}}
      Template(<<"B", "o", "x">>, <<Param(<<"I", "c", "ô", "n", "e">>, Txt(<<"g">>))>>),
      \* {{Box|image={{Sub|image=z}}}}
      Template(<<"B", "o", "x">>,
               <<Param(K_image,
                       <<Template(<<"S", "u", "b">>,
                                  <<Param(K_image, Txt(<<"z">>))>>)>>)>>) }

TransMenu ==
    { \* y
      TextNode(<<"y">>),
      \* {{Bx| Image =q|caption=d}}
      Template(<<"B", "x">>, <<Param(<<" ", "I", "m", "a", "g", "e", " ">>, Txt(<<"q">>)),
                               Param(K_caption, Txt(<<"d">>))>>),
      \* {{Box|icone=q}}
      Template(<<"B", "o", "x">>, <<Param(<<"i", "c", "o", "n", "e">>, Txt(<<"q">>))>>),
      \* {{Box|image={{Sub|image=q}}}}
      Template(<<"B", "o", "x">>,
               <<Param(K_image,
                       <<Template(<<"S", "u", "b">>,
                                  <<Param(K_image, Txt(<<"q">>))>>)>>)>>),
      \* {{Box|caption={{Sub|image=q}}}}
      Template(<<"B", "o", "x">>,
               <<Param(K_caption,
                       <<Template(<<"S", "u", "b">>,
                                  <<Param(K_image, Txt(<<"q">>))>>)>>)>>) }

OrigDocs == UNION {[1..n -> OrigMenu] : n \in 0..MaxNodes}
TransDocs == UNION {[1..n -> TransMenu] : n \in 0..MaxNodes}

RestoreInit ==
    /\ original \in OrigDocs
    /\ translated \in TransDocs
    /\ restored_code = <<>>
    /\ restored = <<>>
    /\ restored_again = <<>>
    /\ restore_pc = "start"
    /\ ChunkIdle
    /\ MaskIdle
    /\ ExtractIdle
    /\ JsonIdle
    /\ PageIdle
    /\ OtherIdle

\* restore_protected_template_params(original_wikitext, translated_wikitext),
\* the two texts being str(original) and str(translated)
Restore ==
    /\ restore_pc = "start"
    /\ restored_code' = RestoredCode(original, translated)
    /\ restored' = restore_protected_template_params(original, translated)
    /\ restore_pc' = "once"
    /\ UNCHANGED <<original, translated, restored_again>>
    /\ UNCHANGED <<chunkVars, maskVars>>
    /\ UNCHANGED <<extractVars, jsonVars, pageVars>>
    /\ UNCHANGED otherVars

\* restore_protected_template_params(original_wikitext, restored): the parse
\* of the returned text is the document the first call serialized
RestoreAgain ==
    /\ restore_pc = "once"
    /\ restored_again' = restore_protected_template_params(original, restored_code)
    /\ restore_pc' = "twice"
    /\ UNCHANGED <<original, translated, restored_code, restored>>
    /\ UNCHANGED <<chunkVars, maskVars>>
    /\ UNCHANGED <<extractVars, jsonVars, pageVars>>
    /\ UNCHANGED otherVars

RestoreNext == Restore \/ RestoreAgain

SpecRestore == RestoreInit /\ [][RestoreNext]_vars

(***************************************************************************)
(* Claims about create_chunks.                                             *)
(***************************************************************************)
\* the text without its whitespace characters
RECURSIVE NoWS(_)
NoWS(s) ==
    IF s = <<>> THEN <<>>
    ELSE IF IsWS(s[1]) THEN NoWS(Tail(s)) ELSE <<s[1]>> \o NoWS(Tail(s))

InSomeChunk(piece) == \E k \in 1..Len(chunks) : IsSubstr(piece, chunks[k])

\* C1 -- chunk coverage: every section heading, every non-blank paragraph of
\* every section and every non-blank line of the input occurs in at least one
\* chunk returned by create_chunks.
C1_ChunkCoverage ==
    chunk_pc = "done" =>
        LET secs == split_by_sections(wikitext)
            lines == Split(wikitext, <<NL>>)
        IN  /\ \A i \in 1..Len(secs) :
                 /\ secs[i].heading # <<>> => InSomeChunk(secs[i].heading)
                 /\ LET paras == Split(secs[i].content, PARSEP)
                    IN  \A j \in 1..Len(paras) :
                            Strip(paras[j]) # <<>> => InSomeChunk(paras[j])
            /\ \A i \in 1..Len(lines) :
                 Strip(lines[i]) # <<>> => InSomeChunk(Strip(lines[i]))

\* C1 witness: an oversize section with a heading and two non-blank
\* paragraphs has been split over several chunks.
C1_Witness ==
    /\ chunk_pc = "done"
    /\ Len(chunks) >= 2
    /\ \E i \in 1..Len(split_by_sections(wikitext)) :
          LET sec == split_by_sections(wikitext)[i]
              paras == Split(sec.content, PARSEP)
          IN  /\ sec.heading # <<>>
              /\ estimate_tokens(SectionText(sec)) > max_tokens
              /\ Len(paras) >= 2
              /\ \A j \in 1..Len(paras) : Strip(paras[j]) # <<>>

\* C2 -- the chunks partition the input exactly and in order: the chunks
\* concatenated in list order are the input, whitespace (and so the
\* separator) aside; nothing occurs twice and nothing is out of order.
C2_ChunksPartition ==
    chunk_pc = "done" => NoWS(Join(chunks, <<>>)) = NoWS(wikitext)

\* the chunks whose estimate exceeds the budget
OverBudget == {k \in 1..Len(chunks) : estimate_tokens(chunks[k]) > max_tokens}

\* chunk c is one paragraph of the input that alone exceeds the budget,
\* as the forced inclusion emits it (with its section's heading, if any)
IsForcedParagraph(c) ==
    LET secs == split_by_sections(wikitext)
    IN  \E i \in 1..Len(secs) :
          LET paras == Split(secs[i].content, PARSEP)
          IN  \E j \in 1..Len(paras) :
                /\ estimate_tokens(paras[j]) > max_tokens
                /\ \/ c = paras[j]
                   \/ secs[i].heading # <<>> /\ c = secs[i].heading \o <<NL>> \o paras[j]

\* C3 -- budget invariant: every returned chunk has an estimate of at most
\* max_tokens, except at most one chunk, which is a single force-included
\* paragraph that alone exceeds max_tokens.
C3_BudgetInvariant ==
    chunk_pc = "done" =>
        /\ Cardinality(OverBudget) <= 1
        /\ \A k \in OverBudget : IsForcedParagraph(chunks[k])

\* C4 -- create_chunks never returns an empty list, and returns exactly one
\* chunk for the empty string.
C4_NeverEmpty ==
    chunk_pc = "done" =>
        /\ Len(chunks) >= 1
        /\ wikitext = <<>> => Len(chunks) = 1

\* C4 witness: create_chunks has returned for the empty string.
C4_Witness == chunk_pc = "done" /\ wikitext = <<>> /\ Len(chunks) = 1

(***************************************************************************)
(* Claims about masking and unmasking.                                     *)
(***************************************************************************)
\* the number of parameters of a list of templates
RECURSIVE ParamCount(_)
ParamCount(tpls) ==
    IF tpls = <<>> THEN 0 ELSE Len(tpls[1].params) + ParamCount(Tail(tpls))

\* the top-level templates of a document
RECURSIVE TopTemplates(_)
TopTemplates(code) ==
    IF code = <<>> THEN <<>>
    ELSE (IF code[1].kind = "tpl" THEN <<code[1]>> ELSE <<>>) \o TopTemplates(Tail(code))

\* no literal text of the document contains a placeholder of the mapping
NoCollision == \A p \in DOMAIN mapping : ~IsSubstr(p, Serialize(doc))

\* C5 -- mask/unmask round trip: when no literal text of the document
\* contains a placeholder, unmasking the masked text with the mapping gives
\* back the serialization of the parsed document.
C5_MaskRoundTrip ==
    (mask_pc = "done" /\ NoCollision) => unmasked = Serialize(doc)

\* C6 -- masking covers every structural node: every template of the
\* document, top-level or nested in a parameter value, has a placeholder for
\* its name and one per parameter recorded in the mapping, and neither its
\* name nor any of its written keys occurs literally in the masked text,
\* while the plain-text parameter values do.
C6_MaskCoversEveryTemplate ==
    (mask_pc \in {"masked", "done"} /\ NoCollision) =>
        LET tpls == filter_templates(doc)
        IN  /\ Cardinality(DOMAIN mapping) = Len(tpls) + ParamCount(tpls)
            /\ \A i \in 1..Len(tpls) :
                 /\ \E p \in DOMAIN mapping : mapping[p] = tpls[i].name
                 /\ ~IsSubstr(tpls[i].name, masked)
                 /\ \A j \in 1..Len(tpls[i].params) :
                      LET param == tpls[i].params[j]
                      IN  /\ \E p \in DOMAIN mapping : mapping[p] = param.name
                          /\ param.showkey => ~IsSubstr(param.name, masked)
                          /\ (\A k \in 1..Len(param.value) : param.value[k].kind = "text")
                                => IsSubstr(Serialize(param.value), masked)

IsPrefix(a, b) == Len(a) <= Len(b) /\ SubSeq(b, 1, Len(a)) = a

\* every template name and every (template, parameter position) of the pass
\* has a placeholder of its own
PlaceholdersDistinct ==
    Cardinality(DOMAIN mapping) =
        Len(TopTemplates(doc)) + ParamCount(TopTemplates(doc))

\* no placeholder of the mapping is a prefix of another
PlaceholdersPrefixFree ==
    \A p \in DOMAIN mapping : \A q \in DOMAIN mapping : p # q => ~IsPrefix(p, q)

\* all placeholders replaced, in whatever order: the text is the one
\* restore_masked_templates returned
OrderIrrelevant == (mask_pc = "done" /\ pending = {}) => replaced = unmasked

OrigValuesAt(idx, norm) ==
    LET tpls == filter_templates(original)
    IN  IF idx + 1 > Len(tpls) THEN {}
        ELSE {Serialize(tpls[idx + 1].params[j].value) :
                j \in {k \in 1..Len(tpls[idx + 1].params) :
                         normalize_param_name(tpls[idx + 1].params[k].name) = norm}}

\* tcode is a part of the translated document whose first template has
\* list index idx, rcode the same part of the returned document: every
\* protected parameter with an original counterpart has an original value
RECURSIVE ValuesRestored(_, _, _)
RECURSIVE ParamValuesRestored(_, _, _, _)
ParamValuesRestored(tps, rps, idx, next) ==
    \/ tps = <<>>
    \/ /\ rps # <<>>
       /\ LET norm == normalize_param_name(tps[1].name)
          IN  IF norm \in PROTECTED_TEMPLATE_PARAMS /\ OrigValuesAt(idx, norm) # {}
              THEN Serialize(rps[1].value) \in OrigValuesAt(idx, norm)
              ELSE ValuesRestored(tps[1].value, rps[1].value, next)
       /\ ParamValuesRestored(Tail(tps), Tail(rps), idx,
                              next + Len(filter_templates(tps[1].value)))

ValuesRestored(tcode, rcode, idx) ==
    \/ tcode = <<>>
    \/ /\ rcode # <<>>
       /\ tcode[1].kind = rcode[1].kind
       /\ tcode[1].kind = "tpl" =>
            ParamValuesRestored(tcode[1].params, rcode[1].params, idx, idx + 1)
       /\ ValuesRestored(Tail(tcode), Tail(rcode),
                         idx + Len(filter_templates(<<tcode[1]>>)))

\* C8 -- protected-value restoration: in the returned text every parameter
\* of the template at occurrence index i of the translated document whose
\* normalized key is protected, and which the original's template at index i
\* also has, carries the original value, whatever the translation made of it
\* and whatever the case of the key.
C8_ProtectedValuesRestored ==
    restore_pc \in {"once", "twice"} =>
        /\ restored = Serialize(restored_code)
        /\ ValuesRestored(translated, restored_code, 0)

\* C8 witness: the value of a parameter written " Image " was translated and
\* is the original's again in the returned text.
C8_Witness ==
    /\ restore_pc = "once"
    /\ IsSubstr(<<" ", "I", "m", "a", "g", "e", " ", "=", "q">>, Serialize(translated))
    /\ IsSubstr(<<" ", "I", "m", "a", "g", "e", " ", "=", "a">>, restored)

\* the document with the value of every parameter with a protected
\* normalized name emptied
RECURSIVE Skeleton(_)
RECURSIVE SkeletonParams(_)
SkeletonParams(ps) ==
    IF ps = <<>> THEN <<>>
    ELSE <<[ps[1] EXCEPT !.value =
                IF normalize_param_name(ps[1].name) \in PROTECTED_TEMPLATE_PARAMS
                THEN <<>> ELSE Skeleton(ps[1].value)]>>
         \o SkeletonParams(Tail(ps))

Skeleton(code) ==
    IF code = <<>> THEN <<>>
    ELSE <<[code[1] EXCEPT !.params = SkeletonParams(code[1].params)]>>
         \o Skeleton(Tail(code))

\* C9 -- restoration leaves everything unprotected as translated: outside
\* the values of the parameters with a protected normalized name, the
\* returned text is the translated text (template names, parameter keys,
\* unprotected values and the text between templates).
C9_UnprotectedLeftAsTranslated ==
    restore_pc \in {"once", "twice"} =>
        /\ restored = Serialize(restored_code)
        /\ Serialize(Skeleton(restored_code)) = Serialize(Skeleton(translated))

\* C9 witness: image was restored and the caption beside it is still the
\* translated one.
C9_Witness ==
    /\ restore_pc = "once"
    /\ restored # Serialize(translated)
    /\ IsSubstr(<<"=", "a", "|">> \o K_caption \o <<"=", "d">>, restored)

\* C10 -- restoration is idempotent: restoring the returned text against the
\* same original returns it unchanged.
C10_RestoreIdempotent ==
    restore_pc = "twice" => restored_again = restored

(***************************************************************************)
(* wikitext_parser.py: extract_json_template_params and the fallbacks on   *)
(* a parse failure.                                                        *)
(*                                                                         *)
(* mwparserfromhell.parse(text) either gives the document the text stands  *)
(* for or raises; Parse(code, fails) is its outcome for the text           *)
(* Serialize(code).                                                        *)
(***************************************************************************)
Parse(code, fails) == [ok |-> ~fails, code |-> IF fails THEN <<>> ELSE code]

K_json == <<"j", "s", "o", "n">>

\* `norm == 'json'` on the name as written, not normalized
IsJsonKey_raw(name) == name = K_json

\* norm = _normalize_param_name(str(param.name)); norm == 'json'
IsJsonKey(name) == normalize_param_name(name) = K_json

\* the loop over tpl.params: results.append(str(param.value).strip())
RECURSIVE JsonOfParams(_)
JsonOfParams(ps) ==
    IF ps = <<>> THEN <<>>
    ELSE (IF IsJsonKey(ps[1].name) THEN <<Strip(Serialize(ps[1].value))>> ELSE <<>>)
         \o JsonOfParams(Tail(ps))

\* the loop over code.filter_templates()
RECURSIVE JsonOfTemplates(_)
JsonOfTemplates(tpls) ==
    IF tpls = <<>> THEN <<>>
    ELSE JsonOfParams(tpls[1].params) \o JsonOfTemplates(Tail(tpls))

\* extract_json_template_params, of the outcome of the parse
extract_json_template_params(parsed) ==
    IF ~parsed.ok THEN <<>> ELSE JsonOfTemplates(filter_templates(parsed.code))

\* mask_templates_for_translation with its try/except, of the text and the
\* outcome of its parse
MaskOrPassThrough(text, parsed) ==
    IF ~parsed.ok THEN [text |-> text, mapping |-> <<>>]
    ELSE mask_templates_for_translation(parsed.code)

\* the fallback taken only when the first of the two parses fails
RestoreOrPassThrough_firstOnly(translated_text, parsed_orig, parsed_trans) ==
    IF ~parsed_orig.ok THEN translated_text
    ELSE restore_protected_template_params(parsed_orig.code, parsed_trans.code)

\* restore_protected_template_params with its try/except, of the translated
\* text and the outcomes of the two parses
RestoreOrPassThrough(translated_text, parsed_orig, parsed_trans) ==
    IF ~parsed_orig.ok \/ ~parsed_trans.ok THEN translated_text
    ELSE restore_protected_template_params(parsed_orig.code, parsed_trans.code)

K_A_B_json == <<"A", "/", "B", ".", "j", "s", "o", "n">>
K_C_D_json == <<"C", "/", "D", ".", "j", "s", "o", "n">>

ExtractMenu ==
    { \* x
      TextNode(<<"x">>),
      \* {{Box|json=A/B.json}}
      Template(<<"B", "o", "x">>, <<Param(K_json, Txt(K_A_B_json))>>),
      \* {{Box| JSON = C/D.json }}
      Template(<<"B", "o", "x">>,
               <<Param(<<" ", "J", "S", "O", "N", " ">>,
                       Txt(<<" ">> \o K_C_D_json \o <<" ">>))>>),
      \* {{Box|ka={{Sub|json=C/D.json}}|json=A/B.json}}
      Template(<<"B", "o", "x">>,
               <<Param(<<"k", "a">>,
                       <<Template(<<"S", "u", "b">>, <<Param(K_json, Txt(K_C_D_json))>>)>>),
                 Param(K_json, Txt(K_A_B_json))>>),
      \* {{Box|image=a|caption=c}}
      Template(<<"B", "o", "x">>, <<Param(K_image, Txt(<<"a">>)),
                                    Param(K_caption, Txt(<<"c">>))>>),
      \* {{Box|ka=v}}
      Template(<<"B", "o", "x">>, <<Param(<<"k", "a">>, Txt(<<"v">>))>>) }

ExtractDocs == UNION {[1..n -> ExtractMenu] : n \in 0..MaxNodes}

ExtractTrans ==
    { \* y
      <<TextNode(<<"y">>)>>,
      \* {{Box|image=q|caption=d}}
      <<Template(<<"B", "o", "x">>, <<Param(K_image, Txt(<<"q">>)),
                                      Param(K_caption, Txt(<<"d">>))>>)>> }

ExtractInit ==
    /\ ex_orig \in ExtractDocs
    /\ ex_trans \in ExtractTrans
    /\ ex_orig_fails \in BOOLEAN
    /\ ex_trans_fails \in BOOLEAN
    /\ ex_refs = <<>>
    /\ ex_mask = <<>>
    /\ ex_restored = <<>>
    /\ ex_pc = "start"
    /\ ChunkIdle
    /\ MaskIdle
    /\ RestoreIdle
    /\ JsonIdle
    /\ PageIdle
    /\ OtherIdle

\* extract_json_template_params(wikitext)
Extract ==
    /\ ex_pc = "start"
    /\ ex_refs' = extract_json_template_params(Parse(ex_orig, ex_orig_fails))
    /\ ex_pc' = "extracted"
    /\ UNCHANGED <<ex_orig, ex_trans, ex_orig_fails, ex_trans_fails, ex_mask, ex_restored>>
    /\ UNCHANGED <<chunkVars, maskVars, restoreVars, jsonVars, pageVars>>
    /\ UNCHANGED otherVars

\* mask_templates_for_translation(wikitext)
MaskText ==
    /\ ex_pc = "extracted"
    /\ ex_mask' = MaskOrPassThrough(Serialize(ex_orig), Parse(ex_orig, ex_orig_fails))
    /\ ex_pc' = "masked"
    /\ UNCHANGED <<ex_orig, ex_trans, ex_orig_fails, ex_trans_fails, ex_refs, ex_restored>>
    /\ UNCHANGED <<chunkVars, maskVars, restoreVars, jsonVars, pageVars>>
    /\ UNCHANGED otherVars

\* restore_protected_template_params(original_wikitext, translated_wikitext)
RestoreText ==
    /\ ex_pc = "masked"
    /\ ex_restored' = RestoreOrPassThrough(Serialize(ex_trans),
                                           Parse(ex_orig, ex_orig_fails),
                                           Parse(ex_trans, ex_trans_fails))
    /\ ex_pc' = "done"
    /\ UNCHANGED <<ex_orig, ex_trans, ex_orig_fails, ex_trans_fails, ex_refs, ex_mask>>
    /\ UNCHANGED <<chunkVars, maskVars, restoreVars, jsonVars, pageVars>>
    /\ UNCHANGED otherVars

ExtractNext == Extract \/ MaskText \/ RestoreText

SpecExtract == ExtractInit /\ [][ExtractNext]_vars

(***************************************************************************)
(* Claims about extract_json_template_params and the fallbacks.            *)
(***************************************************************************)
\* the raw values of the json parameters in the order in which they are
\* written in the text: a parameter before the templates inside its value
RECURSIVE RawJsonInTextOrder(_)
RECURSIVE RawJsonOfParamsInTextOrder(_)
RawJsonOfParamsInTextOrder(ps) ==
    IF ps = <<>> THEN <<>>
    ELSE (IF normalize_param_name(ps[1].name) = K_json
          THEN <<Serialize(ps[1].value)>> ELSE <<>>)
         \o RawJsonInTextOrder(ps[1].value)
         \o RawJsonOfParamsInTextOrder(Tail(ps))

RawJsonInTextOrder(code) ==
    IF code = <<>> THEN <<>>
    ELSE (IF code[1].kind = "tpl" THEN RawJsonOfParamsInTextOrder(code[1].params)
          ELSE <<>>)
         \o RawJsonInTextOrder(Tail(code))

\* the (template index, parameter index) pairs of the json parameters
JsonPairs(tpls) ==
    UNION {{<<i, j>> : j \in {k \in 1..Len(tpls[i].params) :
                                normalize_param_name(tpls[i].params[k].name) = K_json}} :
             i \in 1..Len(tpls)}

\* a set of pairs as a list, sorted by template index, then parameter index
RECURSIVE PairsInOrder(_)
PairsInOrder(S) ==
    IF S = {} THEN <<>>
    ELSE LET first == CHOOSE x \in S : \A y \in S :
                          x[1] < y[1] \/ (x[1] = y[1] /\ x[2] <= y[2])
         IN  <<first>> \o PairsInOrder(S \ {first})

C13_ParseFailureFallsBack ==
    /\ (ex_pc \in {"extracted", "masked", "done"} /\ ex_orig_fails) => ex_refs = <<>>
    /\ (ex_pc \in {"masked", "done"} /\ ex_orig_fails) =>
           /\ ex_mask.text = Serialize(ex_orig)
           /\ DOMAIN ex_mask.mapping = {}
    /\ (ex_pc = "done" /\ (ex_orig_fails \/ ex_trans_fails)) =>
           ex_restored = Serialize(ex_trans)

\* C13 witness: only the parse of the translated text failed, where a
\* restoration would have changed the text, and the translated text came
\* back as it is.
C13_Witness ==
    /\ ex_pc = "done"
    /\ ~ex_orig_fails
    /\ ex_trans_fails
    /\ restore_protected_template_params(ex_orig, ex_trans) # Serialize(ex_trans)
    /\ ex_restored = Serialize(ex_trans)

(***************************************************************************)
(* translation_pipeline.py: the sub-resource pass of process_single_page   *)
(* (lines 139-216).  The transformation (OpenAIClient.translate_chunk) is  *)
(* an external collaborator: ai_mode says whether it returns its input     *)
(* unchanged or translates the plain word it finds; it never alters a      *)
(* placeholder.                                                            *)
(***************************************************************************)
PipelineMaxTokens == 7000

\* target_title, computed before the pass
TargetTitle == <<"T">>

DOT_JSON == <<".", "j", "s", "o", "n">>

\* str.lower()
Lower(s) == [i \in 1..Len(s) |-> ToLower(s[i])]

\* not (not raw.lower().endswith('.json') or '/' not in raw)
IsJsonPath(raw) ==
    /\ Len(raw) >= Len(DOT_JSON)
    /\ SubSeq(Lower(raw), Len(raw) - Len(DOT_JSON) + 1, Len(raw)) = DOT_JSON
    /\ \E i \in 1..Len(raw) : raw[i] = "/"

\* raw.rsplit('/', 1)[1][:-5]
Subname(raw) ==
    LET slash == CHOOSE i \in 1..Len(raw) :
                     raw[i] = "/" /\ \A j \in (i + 1)..Len(raw) : raw[j] # "/"
    IN  SubSeq(raw, slash + 1, Len(raw) - Len(DOT_JSON))

\* translate_chunk on the prompt for a subpage name, stripped
AiName(subname, mode) == IF mode = "keep" THEN subname ELSE subname \o <<"2">>

\* translate_chunk on a chunk of wikitext
AiChunk(chunk, mode) ==
    IF mode = "keep" THEN chunk
    ELSE [i \in 1..Len(chunk) |-> IF chunk[i] = "x" THEN "y" ELSE chunk[i]]

\* target_json_path = f"{target_title}/{translated_subname}.json"
TargetJsonPath(raw, mode) ==
    TargetTitle \o <<"/">> \o AiName(Subname(raw), mode) \o DOT_JSON

\* f"⟪JSON_PATH_{idx}⟫"
JsonPlaceholder(idx) ==
    <<OPEN, "J", "S", "O", "N", "_", "P", "A", "T", "H", "_">> \o Decimal(idx) \o <<CLOSE>>

\* The loop over enumerate(json_refs): json_placeholder_mapping as a list of
\* <<placeholder, target path>> in insertion order
RECURSIVE PlaceholderMapping(_, _, _)
PlaceholderMapping(refs, idx, mode) ==
    IF refs = <<>> THEN <<>>
    ELSE (IF IsJsonPath(refs[1])
          THEN <<<<JsonPlaceholder(idx), TargetJsonPath(refs[1], mode)>>>>
          ELSE <<>>)
         \o PlaceholderMapping(Tail(refs), idx + 1, mode)

\* text.replace(old, new) on a parsed text; old holds no markup character,
\* so each occurrence lies inside one name, key or piece of text
RECURSIVE ReplaceInCode(_, _, _)
RECURSIVE ReplaceInParams(_, _, _)
ReplaceInParams(ps, old, new) ==
    IF ps = <<>> THEN <<>>
    ELSE <<[ps[1] EXCEPT !.name = Replace(ps[1].name, old, new),
                         !.value = ReplaceInCode(ps[1].value, old, new)]>>
         \o ReplaceInParams(Tail(ps), old, new)

ReplaceInCode(code, old, new) ==
    IF code = <<>> THEN <<>>
    ELSE <<[code[1] EXCEPT !.text = Replace(code[1].text, old, new),
                           !.name = Replace(code[1].name, old, new),
                           !.params = ReplaceInParams(code[1].params, old, new)]>>
         \o ReplaceInCode(Tail(code), old, new)

\* wikitext_with_placeholders: the loop over zip(json_refs, placeholders);
\* `original in json_replacements` is IsJsonPath(original)
RECURSIVE WithPlaceholders(_, _, _)
WithPlaceholders(code, refs, idx) ==
    IF refs = <<>> THEN code
    ELSE WithPlaceholders(
             IF IsJsonPath(refs[1])
             THEN ReplaceInCode(code, refs[1], JsonPlaceholder(idx))
             ELSE code,
             Tail(refs), idx + 1)

\* [translate_chunk(chunk) for chunk in chunks]
TranslatedChunks(cs, mode) == [i \in 1..Len(cs) |-> AiChunk(cs[i], mode)]

\* the loop over json_placeholder_mapping.items()
RECURSIVE ReplacePlaceholders(_, _)
ReplacePlaceholders(text, pairs) ==
    IF pairs = <<>> THEN text
    ELSE ReplacePlaceholders(Replace(text, pairs[1][1], pairs[1][2]), Tail(pairs))

JsonMenu ==
    { \* x
      TextNode(<<"x">>),
      \* {{Box|json=A/B.json}}
      Template(<<"B", "o", "x">>, <<Param(K_json, Txt(K_A_B_json))>>),
      \* {{Box|json=C/A/B.json}}
      Template(<<"B", "o", "x">>, <<Param(K_json, Txt(<<"C", "/">> \o K_A_B_json))>>),
      \* {{Box|json=v}}
      Template(<<"B", "o", "x">>, <<Param(K_json, Txt(<<"v">>))>>),
      \* {{Box|ka=C/D.json}}
      Template(<<"B", "o", "x">>, <<Param(<<"k", "a">>, Txt(K_C_D_json))>>),
      \* {{Box|json=C/D.json}}
      Template(<<"B", "o", "x">>, <<Param(K_json, Txt(K_C_D_json))>>) }

JsonDocs == UNION {[1..n -> JsonMenu] : n \in 0..MaxNodes}

JsonInit ==
    /\ json_doc \in JsonDocs
    /\ ai_mode \in {"keep", "translate"}
    /\ json_refs = <<>>
    /\ json_placeholder_mapping = <<>>
    /\ json_chunks = <<>>
    /\ new_wikitext = <<>>
    /\ json_pc = "start"
    /\ ChunkIdle
    /\ MaskIdle
    /\ RestoreIdle
    /\ ExtractIdle
    /\ PageIdle
    /\ OtherIdle

\* lines 139-187: the references and their target paths
CollectJsonRefs ==
    /\ json_pc = "start"
    /\ LET refs == extract_json_template_params(Parse(json_doc, FALSE))
       IN  /\ json_refs' = refs
           /\ json_placeholder_mapping' = PlaceholderMapping(refs, 0, ai_mode)
    /\ json_pc' = "collected"
    /\ UNCHANGED <<json_doc, ai_mode, json_chunks, new_wikitext>>
    /\ UNCHANGED <<chunkVars, maskVars, restoreVars, extractVars, pageVars>>
    /\ UNCHANGED otherVars

\* lines 189-199: placeholders for the references, masking, chunking
MaskAndChunk ==
    /\ json_pc = "collected"
    /\ LET with == WithPlaceholders(json_doc, json_refs, 0)
           m == MaskOrPassThrough(Serialize(with), Parse(with, FALSE))
       IN  json_chunks' = create_chunks(m.text, PipelineMaxTokens)
    /\ json_pc' = "chunked"
    /\ UNCHANGED <<json_doc, ai_mode, json_refs, json_placeholder_mapping, new_wikitext>>
    /\ UNCHANGED <<chunkVars, maskVars, restoreVars, extractVars, pageVars>>
    /\ UNCHANGED otherVars

\* lines 203-216: translation, unmasking, restoration, target paths.  The
\* source text has no protected parameter, so that
\* restore_protected_template_params returns the translated text (line 98).
TranslateAndRestore ==
    /\ json_pc = "chunked"
    /\ DOMAIN OriginalValues(json_doc) = {}
    /\ LET with == WithPlaceholders(json_doc, json_refs, 0)
           m == MaskOrPassThrough(Serialize(with), Parse(with, FALSE))
           joined == Join(TranslatedChunks(json_chunks, ai_mode), PARSEP)
           unmasked_text == restore_masked_templates(joined, m.mapping)
       IN  new_wikitext' = ReplacePlaceholders(unmasked_text, json_placeholder_mapping)
    /\ json_pc' = "done"
    /\ UNCHANGED <<json_doc, ai_mode, json_refs, json_placeholder_mapping, json_chunks>>
    /\ UNCHANGED <<chunkVars, maskVars, restoreVars, extractVars, pageVars>>
    /\ UNCHANGED otherVars

JsonNext == CollectJsonRefs \/ MaskAndChunk \/ TranslateAndRestore

SpecJson == JsonInit /\ [][JsonNext]_vars

(***************************************************************************)
(* Claims about the sub-resource pass.                                     *)
(***************************************************************************)
\* the document the claim expects: the plain text transformed, and the value
\* of every json parameter of the pattern Base/Sub.json replaced by the
\* target path computed for it
RECURSIVE ExpectedCode(_, _)
RECURSIVE ExpectedParams(_, _)
ExpectedParams(ps, mode) ==
    IF ps = <<>> THEN <<>>
    ELSE <<[ps[1] EXCEPT !.value =
                IF normalize_param_name(ps[1].name) = K_json
                   /\ IsJsonPath(Strip(Serialize(ps[1].value)))
                THEN Txt(TargetJsonPath(Strip(Serialize(ps[1].value)), mode))
                ELSE ExpectedCode(ps[1].value, mode)]>>
         \o ExpectedParams(Tail(ps), mode)

ExpectedCode(code, mode) ==
    IF code = <<>> THEN <<>>
    ELSE <<[code[1] EXCEPT !.text = AiChunk(code[1].text, mode),
                           !.params = ExpectedParams(code[1].params, mode)]>>
         \o ExpectedCode(Tail(code), mode)

\* the references of the pattern Base/Sub.json
ValidRefs == {json_refs[i] : i \in {k \in 1..Len(json_refs) : IsJsonPath(json_refs[k])}}

\* the references occur in the source text only as values of json
\* parameters
OnlyInJsonValues ==
    \A raw \in ValidRefs : ~IsSubstr(raw, Serialize(ExpectedCode(json_doc, ai_mode)))

\* C12 -- sub-resource placeholder contract: no chunk handed to the
\* transformation contains the path of a reference of the pattern
\* Base/Sub.json, and in the final text each such reference is replaced by
\* the target path computed for that reference.
C12_JsonPathsReplacedByTheirTargets ==
    /\ json_pc \in {"chunked", "done"} =>
           \A raw \in ValidRefs : \A k \in 1..Len(json_chunks) :
               ~IsSubstr(raw, json_chunks[k])
    /\ (json_pc = "done" /\ OnlyInJsonValues) =>
           new_wikitext = Serialize(ExpectedCode(json_doc, ai_mode))

(***************************************************************************)
(* translation_pipeline.py: process_single_page, as the calls it issues    *)
(* to the source wiki, the target wiki, the wikis of the other languages   *)
(* and the AI client, the rows it appends to the audit CSV and the edits   *)
(* the wikis receive.  The methods of MediaWikiClient are modelled with    *)
(* the calls they make themselves (mediawiki_client.py).                   *)
(***************************************************************************)
MaxJsonRefs == 1

TargetLang == "en"
OtherLang == "de"

\* a call: the wiki (or "ai") it goes to, the method, the title it is about,
\* the function that issues it, and whether its query resolves redirects
Call(wiki, op, title, by) ==
    [wiki |-> wiki, op |-> op, title |-> title, by |-> by, query_redirects |-> FALSE,
     marker |-> ""]

\* a call of add_or_update_interwiki_link: marker is the title the interwiki
\* marker [[target_lang:title]] points to
LinkCall(wiki, title, marker) ==
    [wiki |-> wiki, op |-> "add_or_update_interwiki_link", title |-> title,
     by |-> "process_single_page", query_redirects |-> FALSE, marker |-> marker]

\* an edit received by a wiki
Edit(title, kind) == [title |-> title, kind |-> kind]

\* `self.target_lang in langlinks and not self.force`, ignoring force
SkipsPage_ignoringForce(links, f) == TargetLang \in links

\* `self.target_lang in langlinks and not self.force`
SkipsPage(links, f) == TargetLang \in links /\ ~f

\* MediaWikiClient.page_exists: int(page_id) > 0; a redirect is a page
page_exists(state) == state \in {"page", "redirect"}

\* `target_exists and not self.force`, never taken
LinksOnly_never(exists, f) == FALSE

\* `target_exists and not self.force`
LinksOnly(exists, f) == exists /\ ~f

\* the title of source_mw's page
SourceTitle == "Page"

\* MediaWikiClient.add_or_update_interwiki_link: the calls it issues; present
\* says that the page already holds the exact marker
AddInterwikiCalls(wiki, title, marker, present) ==
    <<LinkCall(wiki, title, marker),
      Call(wiki, "fetch_page_wikitext", title, "add_or_update_interwiki_link")>>
    \o (IF present THEN <<>>
        ELSE <<Call(wiki, "create_or_update_page", title, "add_or_update_interwiki_link")>>)

\* MediaWikiClient.add_or_update_interwiki_link: the edits the wiki receives
AddInterwikiEdits(title, present) ==
    IF present THEN <<>> ELSE <<Edit(title, "interwiki")>>

\* the title of the k-th JSON sub-page: its reference on the source wiki,
\* its target path on the target wiki
JsonTitle(k) == IF k = 1 THEN "Json1" ELSE IF k = 2 THEN "Json2" ELSE "JsonN"

\* the loop over json_refs (lines 145-187): the calls of n references
RECURSIVE JsonSubpageCalls(_, _)
JsonSubpageCalls(n, dry) ==
    IF n = 0 THEN <<>>
    ELSE JsonSubpageCalls(n - 1, dry)
         \o <<Call("ai", "translate_chunk", JsonTitle(n), "process_single_page"),
              Call("source", "fetch_page_wikitext", JsonTitle(n), "process_single_page"),
              Call("ai", "translate_chunk", JsonTitle(n), "process_single_page")>>
         \o (IF dry THEN <<>>
             ELSE <<Call("target", "create_or_update_json_page", JsonTitle(n),
                         "process_single_page")>>)

\* the JSON pages written whatever dry_run says
RECURSIVE JsonPageWrites_always(_, _)
JsonPageWrites_always(n, dry) ==
    IF n = 0 THEN <<>>
    ELSE Append(JsonPageWrites_always(n - 1, dry), Edit(JsonTitle(n), "json"))

\* the loop over json_refs (lines 145-187): the JSON pages the target wiki
\* receives (line 180-181)
RECURSIVE JsonPageWrites(_, _)
JsonPageWrites(n, dry) ==
    IF n = 0 \/ dry THEN <<>>
    ELSE Append(JsonPageWrites(n - 1, dry), Edit(JsonTitle(n), "json"))

\* the langlinks of the other languages (lines 251-253)
OtherLangs(links) == links \ {TargetLang}

\* the title of the langlink of the source page for the target language
LanglinkTitle == "Linked"

\* the target title translated anew whatever the langlinks
TargetTitleOf_retranslated(links) == "Translated"

\* lines 113-117: langlinks[self.target_lang], or the translated title
TargetTitleOf(links) == IF TargetLang \in links THEN LanglinkTitle ELSE "Translated"

PageInit ==
    /\ force \in BOOLEAN
    /\ dry_run \in BOOLEAN
    /\ langlinks \in SUBSET {TargetLang, OtherLang}
    /\ target_state \in {"missing", "page", "redirect"}
    /\ has_wikitext \in BOOLEAN
    /\ n_json \in 0..MaxJsonRefs
    /\ marker_present \in BOOLEAN
    /\ target_title = ""
    /\ calls = <<>>
    /\ log_rows = <<>>
    /\ source_wiki = <<>>
    /\ target_wiki = <<>>
    /\ other_wiki = <<>>
    /\ page_pc = "start"
    /\ page_title = <<"P">>
    /\ ChunkIdle
    /\ MaskIdle
    /\ RestoreIdle
    /\ ExtractIdle
    /\ JsonIdle
    /\ OtherIdle

pageInputs == <<force, dry_run, langlinks, target_state, has_wikitext, n_json,
                marker_present, page_title>>

\* line 99: not (not title or title.startswith('#'))
TitleOk(t) == t # <<>> /\ t[1] # "#"

\* lines 101-108: the langlinks and the skip of a translated page
GetLanglinks ==
    /\ page_pc = "start"
    /\ TitleOk(page_title)
    /\ calls' = Append(calls, Call("source", "get_langlinks", SourceTitle,
                                   "process_single_page"))
    /\ IF SkipsPage(langlinks, force)
       THEN /\ log_rows' = Append(log_rows, "skipped")
            /\ page_pc' = "done"
       ELSE /\ log_rows' = log_rows
            /\ page_pc' = "title"
    /\ UNCHANGED <<pageInputs, target_title, source_wiki, target_wiki, other_wiki>>
    /\ UNCHANGED <<chunkVars, maskVars, restoreVars, extractVars, jsonVars>>
    /\ UNCHANGED otherVars

\* lines 113-119: the target title and its existence on the target wiki
CheckTarget ==
    /\ page_pc = "title"
    /\ LET title == TargetTitleOf(langlinks)
           translate == IF TargetLang \in langlinks THEN <<>>
                        ELSE <<Call("ai", "translate_chunk", SourceTitle,
                                    "_translate_title")>>
       IN  /\ target_title' = title
           /\ calls' = calls \o translate
                       \o <<Call("target", "page_exists", title, "process_single_page")>>
    /\ page_pc' = "checked"
    /\ UNCHANGED <<pageInputs, log_rows, source_wiki, target_wiki, other_wiki>>
    /\ UNCHANGED <<chunkVars, maskVars, restoreVars, extractVars, jsonVars>>
    /\ UNCHANGED otherVars

\* lines 122-130: the target exists and force is not set
LinkOnly ==
    /\ page_pc = "checked"
    /\ LinksOnly(page_exists(target_state), force)
    /\ IF ~dry_run
       THEN /\ calls' = calls \o AddInterwikiCalls("source", SourceTitle, target_title,
                                                    marker_present)
            /\ source_wiki' = source_wiki \o AddInterwikiEdits(SourceTitle, marker_present)
       ELSE UNCHANGED <<calls, source_wiki>>
    /\ log_rows' = Append(log_rows, "linked")
    /\ page_pc' = "done"
    /\ UNCHANGED <<pageInputs, target_title, target_wiki, other_wiki>>
    /\ UNCHANGED <<chunkVars, maskVars, restoreVars, extractVars, jsonVars>>
    /\ UNCHANGED otherVars

\* `wikitext is None` never true
MissingWikitext_never(has) == FALSE

\* line 133: `wikitext is None`
MissingWikitext(has) == ~has

\* lines 132-137: the source wikitext
FetchWikitext ==
    /\ page_pc = "checked"
    /\ ~LinksOnly(page_exists(target_state), force)
    /\ calls' = Append(calls, Call("source", "fetch_page_wikitext", SourceTitle,
                                   "process_single_page"))
    /\ IF ~MissingWikitext(has_wikitext)
       THEN /\ log_rows' = log_rows
            /\ page_pc' = "fetched"
       ELSE /\ log_rows' = Append(log_rows, "error")
            /\ page_pc' = "done"
    /\ UNCHANGED <<pageInputs, target_title, source_wiki, target_wiki, other_wiki>>
    /\ UNCHANGED <<chunkVars, maskVars, restoreVars, extractVars, jsonVars>>
    /\ UNCHANGED otherVars

\* lines 139-187: the JSON sub-pages
JsonSubpages ==
    /\ page_pc = "fetched"
    /\ calls' = calls \o JsonSubpageCalls(n_json, dry_run)
    /\ target_wiki' = target_wiki \o JsonPageWrites(n_json, dry_run)
    /\ page_pc' = "json"
    /\ UNCHANGED <<pageInputs, target_title, log_rows, source_wiki, other_wiki>>
    /\ UNCHANGED <<chunkVars, maskVars, restoreVars, extractVars, jsonVars>>
    /\ UNCHANGED otherVars

\* lines 189-226: the transformation of the chunks and its validation
TranslatePage ==
    /\ page_pc = "json"
    /\ calls' = calls \o <<Call("ai", "translate_chunk", SourceTitle, "process_single_page"),
                           Call("ai", "validate_translation", SourceTitle,
                                "process_single_page")>>
    /\ page_pc' = "translated"
    /\ UNCHANGED <<pageInputs, target_title, log_rows, source_wiki, target_wiki, other_wiki>>
    /\ UNCHANGED <<chunkVars, maskVars, restoreVars, extractVars, jsonVars>>
    /\ UNCHANGED otherVars

\* lines 228-272: publication, interwiki links, audit row
Publish ==
    /\ page_pc = "translated"
    /\ IF ~dry_run
       THEN LET others == OtherLangs(langlinks)
            IN  /\ calls' = calls
                       \o <<Call("target", "create_or_update_page", target_title,
                                 "process_single_page")>>
                       \o AddInterwikiCalls("source", SourceTitle, target_title,
                                            marker_present)
                       \o (IF others = {} THEN <<>>
                           ELSE AddInterwikiCalls("other", "Other", target_title, FALSE))
                /\ target_wiki' = Append(target_wiki, Edit(target_title, "page"))
                /\ source_wiki' = source_wiki \o AddInterwikiEdits(SourceTitle, marker_present)
                /\ other_wiki' = other_wiki
                       \o (IF others = {} THEN <<>> ELSE AddInterwikiEdits("Other", FALSE))
       ELSE UNCHANGED <<calls, target_wiki, source_wiki, other_wiki>>
    /\ log_rows' = Append(log_rows, "translated")
    /\ page_pc' = "done"
    /\ UNCHANGED <<pageInputs, target_title>>
    /\ UNCHANGED <<chunkVars, maskVars, restoreVars, extractVars, jsonVars>>
    /\ UNCHANGED otherVars

PageNext ==
    \/ GetLanglinks
    \/ CheckTarget
    \/ LinkOnly
    \/ FetchWikitext
    \/ JsonSubpages
    \/ TranslatePage
    \/ Publish

SpecPage == PageInit /\ [][PageNext]_vars

\* MediaWikiClient.resolve_redirect: the final title a redirect leads to
resolve_redirect(title, state) == IF state = "redirect" THEN "Final" ELSE title

\* the positions of the calls of a method on a wiki
CallsOf(wiki, op) ==
    {i \in DOMAIN calls : calls[i].wiki = wiki /\ calls[i].op = op}

WriteOps == {"create_or_update_page", "create_or_update_json_page",
             "add_or_update_interwiki_link"}

NoTargetLanglink == TargetLang \notin langlinks

(***************************************************************************)
(* C14: with force set, when the target title exists on the target wiki as *)
(* a redirect, the existence check resolves redirects and the translation  *)
(* is published exactly once, under the final title of the redirect.       *)
(***************************************************************************)
C14_ForcePublishesUnderFinalTitle ==
    (page_pc = "done" /\ force /\ target_state = "redirect" /\ has_wikitext /\ ~dry_run)
    => /\ \A i \in CallsOf("target", "page_exists") : calls[i].query_redirects
       /\ Cardinality(CallsOf("target", "create_or_update_page")) = 1
       /\ \A i \in CallsOf("target", "create_or_update_page") :
              calls[i].title = resolve_redirect(target_title, target_state)

(***************************************************************************)
(* C15, as stated: without force, no langlink for the target language and  *)
(* an existing target title, the run never fetches the source wikitext,    *)
(* never writes the target page, adds the interwiki link to the source     *)
(* page and logs 'linked'.                                                 *)
(***************************************************************************)
LinkOnlyCase == page_pc = "done" /\ ~force /\ NoTargetLanglink /\ page_exists(target_state)

C15_LinkOnlyNeverFetches ==
    LinkOnlyCase
    => /\ CallsOf("source", "fetch_page_wikitext") = {}
       /\ CallsOf("target", "create_or_update_page") = {}
       /\ CallsOf("source", "add_or_update_interwiki_link") # {}
       /\ log_rows = <<"linked">>

(***************************************************************************)
(* C15, amended: in that case process_single_page itself neither fetches   *)
(* the source wikitext nor translates content nor writes to the target     *)
(* wiki, and logs 'linked'; unless dry_run is set it calls                 *)
(* add_or_update_interwiki_link on the source page once, which reads the   *)
(* source page and writes it unless the marker is already there; with      *)
(* dry_run no link is added.                                               *)
(***************************************************************************)
C15_LinkOnlyDoesNotTranslate ==
    LinkOnlyCase
    => /\ \A i \in CallsOf("source", "fetch_page_wikitext") :
              calls[i].by = "add_or_update_interwiki_link"
       /\ \A i \in DOMAIN calls :
              /\ calls[i].wiki # "target" \/ calls[i].op = "page_exists"
              /\ calls[i].wiki = "ai" => calls[i].by = "_translate_title"
       /\ target_wiki = <<>>
       /\ other_wiki = <<>>
       /\ log_rows = <<"linked">>
       /\ dry_run => /\ CallsOf("source", "add_or_update_interwiki_link") = {}
                     /\ source_wiki = <<>>
       /\ ~dry_run => /\ Cardinality(CallsOf("source", "add_or_update_interwiki_link")) = 1
                      /\ Cardinality(CallsOf("source", "fetch_page_wikitext")) = 1
                      /\ source_wiki = IF marker_present THEN <<>>
                                       ELSE <<Edit(SourceTitle, "interwiki")>>

C15_Witness ==
    /\ LinkOnlyCase
    /\ ~dry_run
    /\ ~marker_present
    /\ source_wiki = <<Edit(SourceTitle, "interwiki")>>

(***************************************************************************)
(* C16: with dry_run set, at every point of process_single_page no write   *)
(* operation has been issued to any wiki and the source, target and        *)
(* other-language wikis have received no edit.                             *)
(***************************************************************************)
C16_DryRunWritesNothing ==
    dry_run
    => /\ \A i \in DOMAIN calls : calls[i].op \notin WriteOps
       /\ source_wiki = <<>>
       /\ target_wiki = <<>>
       /\ other_wiki = <<>>

C16_Witness ==
    /\ dry_run
    /\ page_pc = "done"
    /\ log_rows = <<"translated">>
    /\ n_json > 0
    /\ OtherLangs(langlinks) # {}

(***************************************************************************)
(* C17: a source page with a langlink for the target language is, without  *)
(* force, ended by one 'skipped' audit row after get_langlinks and no      *)
(* other call; with force the run goes on to the existence check and,      *)
(* when the source wikitext is there, to the translation.                  *)
(***************************************************************************)
C17_SkippedUnlessForced ==
    /\ (TargetLang \in langlinks /\ ~force /\ page_pc # "start")
       => /\ page_pc = "done"
          /\ log_rows = <<"skipped">>
          /\ calls = <<Call("source", "get_langlinks", SourceTitle, "process_single_page")>>
          /\ source_wiki = <<>> /\ target_wiki = <<>> /\ other_wiki = <<>>
    /\ (TargetLang \in langlinks /\ force /\ page_pc = "done")
       => /\ CallsOf("target", "page_exists") # {}
          /\ CallsOf("source", "fetch_page_wikitext") # {}
          /\ target_title = "Linked"
          /\ log_rows = IF has_wikitext THEN <<"translated">> ELSE <<"error">>
          /\ has_wikitext => \E i \in CallsOf("ai", "translate_chunk") :
                                 calls[i].title = SourceTitle

C17_Witness ==
    /\ TargetLang \in langlinks
    /\ ~force
    /\ page_pc = "done"
    /\ log_rows = <<"skipped">>

(***************************************************************************)
(* Claims about the packing rules of create_chunks.                        *)
(***************************************************************************)
\* the sections of the input whose own estimate exceeds the budget
IsOversize(sec) == estimate_tokens(SectionText(sec)) > max_tokens

\* greedy packing of section texts: a text joins the current group exactly
\* when the running total plus its estimate stays within maxt; otherwise the
\* group is closed and a new one begins with that text
RECURSIVE GreedyGroups(_, _, _, _)
GreedyGroups(texts, maxt, cur, total) ==
    IF texts = <<>> THEN (IF cur # <<>> THEN <<cur>> ELSE <<>>)
    ELSE LET t == estimate_tokens(texts[1])
         IN  IF total + t <= maxt
             THEN GreedyGroups(Tail(texts), maxt, Append(cur, texts[1]), total + t)
             ELSE (IF cur # <<>> THEN <<cur>> ELSE <<>>)
                  \o GreedyGroups(Tail(texts), maxt, <<texts[1]>>, t)

GreedyChunks(texts, maxt) ==
    LET groups == GreedyGroups(texts, maxt, <<>>, 0)
    IN  [g \in 1..Len(groups) |-> Join(groups[g], PARSEP)]

SectionTexts(secs) == [i \in 1..Len(secs) |-> SectionText(secs[i])]

\* C18 -- greedy section packing: when every section's own estimate is at
\* most max_tokens, the chunks are the sections packed greedily in order: a
\* section joins the current chunk exactly when the running total of section
\* estimates plus its own is <= max_tokens, otherwise the chunk is closed and
\* a new one begins with that section.
C18_GreedySectionPacking ==
    LET secs == split_by_sections(wikitext)
    IN  (chunk_pc = "done" /\ secs # <<>> /\ \A i \in 1..Len(secs) : ~IsOversize(secs[i]))
        => chunks = GreedyChunks(SectionTexts(secs), max_tokens)

\* C18 witness: two level-2 sections with content, which fit together in the
\* budget, have been returned as one chunk holding both in order.
C18_Witness ==
    LET secs == split_by_sections(wikitext)
    IN  /\ chunk_pc = "done"
        /\ Len(secs) = 2
        /\ \A i \in 1..2 : secs[i].heading # <<>> /\ secs[i].content # <<>>
        /\ estimate_tokens(SectionText(secs[1])) + estimate_tokens(SectionText(secs[2]))
             <= max_tokens
        /\ chunks = <<SectionText(secs[1]) \o PARSEP \o SectionText(secs[2])>>

\* the chunk of one group of paragraphs of a section: a single paragraph over
\* the budget carries the heading of its section, any other group is joined
GroupChunk(group, heading, maxt) ==
    IF Len(group) = 1 /\ estimate_tokens(group[1]) > maxt /\ group[1] # heading
    THEN (IF heading # <<>> THEN heading \o <<NL>> \o group[1] ELSE group[1])
    ELSE Join(group, PARSEP)

\* an oversize section on its own: its paragraphs packed greedily, the
\* heading opening the first chunk
OversizeChunks(sec, maxt) ==
    LET paras == Split(sec.content, PARSEP)
        groups == IF sec.heading # <<>>
                  THEN GreedyGroups(paras, maxt, <<sec.heading>>,
                                    estimate_tokens(sec.heading))
                  ELSE GreedyGroups(paras, maxt, <<>>, 0)
    IN  [g \in 1..Len(groups) |-> GroupChunk(groups[g], sec.heading, maxt)]

\* the chunks of a list of sections: each oversize section closes the run of
\* sections before it, is chunked on its own, and the packing restarts from
\* an empty chunk after it; run is the run of fitting sections so far
RECURSIVE SectionwiseChunks(_, _, _)
SectionwiseChunks(secs, run, maxt) ==
    IF secs = <<>> THEN GreedyChunks(run, maxt)
    ELSE IF estimate_tokens(SectionText(secs[1])) > maxt
    THEN GreedyChunks(run, maxt) \o OversizeChunks(secs[1], maxt)
         \o SectionwiseChunks(Tail(secs), <<>>, maxt)
    ELSE SectionwiseChunks(Tail(secs), Append(run, SectionText(secs[1])), maxt)

HasOversizeSection ==
    \E i \in 1..Len(split_by_sections(wikitext)) : IsOversize(split_by_sections(wikitext)[i])

\* C19 -- oversize-section handling: a section whose own estimate exceeds
\* max_tokens closes the chunk being accumulated, is emitted as chunks built
\* only from its own paragraphs packed greedily, the first of which starts
\* with its heading, shares no chunk with another section, and the packing
\* of the later sections restarts from an empty chunk.
C19_OversizeSectionOnItsOwn ==
    (chunk_pc = "done" /\ HasOversizeSection)
    => chunks = SectionwiseChunks(split_by_sections(wikitext), <<>>, max_tokens)

\* the paragraph pass of an oversize section taken on its own (lines 71-93):
\* the chunks it appends for a heading and a list of paragraphs
ParagraphChunks(heading, paragraphs, maxt) ==
    LET p0 == [chunks |-> <<>>,
               parts |-> IF heading # <<>> THEN <<heading>> ELSE <<>>,
               tokens |-> IF heading # <<>> THEN estimate_tokens(heading) ELSE 0]
        p1 == ParagraphLoop(p0, heading, paragraphs, maxt)
    IN  IF p1.parts # <<>> THEN Append(p1.chunks, Join(p1.parts, PARSEP))
        ELSE p1.chunks

\* the chunk the forced inclusion emits for paragraph para
ForcedChunk(heading, para) ==
    IF heading # <<>> THEN heading \o <<NL>> \o para ELSE para

\* the input is one section over the budget, with a paragraph over the budget
OneSectionWithBigParagraph ==
    LET secs == split_by_sections(wikitext)
    IN  /\ Len(secs) = 1
        /\ IsOversize(secs[1])
        /\ \E j \in 1..Len(Split(secs[1].content, PARSEP)) :
               estimate_tokens(Split(secs[1].content, PARSEP)[j]) > max_tokens

\* C20 -- forced inclusion: in a section over the budget, each paragraph
\* whose own estimate exceeds max_tokens is emitted whole in a chunk of its
\* own (with the heading of the section, if any), and the other chunks are
\* the chunks the section's other paragraphs give without it.
C20_ForcedInclusionLeavesOthersAlone ==
    (chunk_pc = "done" /\ OneSectionWithBigParagraph)
    => LET sec == split_by_sections(wikitext)[1]
           paras == Split(sec.content, PARSEP)
           IsBig(para) == estimate_tokens(para) > max_tokens
           IsForced(c) == \E j \in 1..Len(paras) :
                              IsBig(paras[j]) /\ c = ForcedChunk(sec.heading, paras[j])
           Fits(para) == ~IsBig(para)
           NotForced(c) == ~IsForced(c)
       IN  /\ \A j \in 1..Len(paras) :
                  IsBig(paras[j]) =>
                      \E k \in 1..Len(chunks) : chunks[k] = ForcedChunk(sec.heading, paras[j])
           /\ SelectSeq(chunks, NotForced)
                = ParagraphChunks(sec.heading, SelectSeq(paras, Fits), max_tokens)

(***************************************************************************)
(* Scenario B of create_chunks, at a scale of 1:100: one section made of a *)
(* heading and three paragraphs of about ScenarioTokens tokens each, with  *)
(* a budget of about 7/3 of a paragraph (3000 tokens and 7000 in the       *)
(* scenario).                                                              *)
(***************************************************************************)
ScenarioTokens == 30

\* a paragraph of n characters
Paragraph(n) == [i \in 1..n |-> "p"]

ScenarioHeading == <<"=", "=", "h", "=", "=">>

ParagraphSizes == {3 * ScenarioTokens - 3, 3 * ScenarioTokens, 3 * ScenarioTokens + 3}

ScenarioBudgets == ((7 * ScenarioTokens) \div 3 - 2)..((7 * ScenarioTokens) \div 3 + 2)

ScenarioText(a, b, c) ==
    ScenarioHeading \o <<NL>> \o Paragraph(a) \o PARSEP \o Paragraph(b)
                    \o PARSEP \o Paragraph(c)

ScenarioInit ==
    /\ \E a \in ParagraphSizes, b \in ParagraphSizes, c \in ParagraphSizes :
           wikitext = ScenarioText(a, b, c)
    /\ max_tokens \in ScenarioBudgets
    /\ chunks = <<>>
    /\ chunk_pc = "start"
    /\ MaskIdle
    /\ RestoreIdle
    /\ ExtractIdle
    /\ JsonIdle
    /\ PageIdle
    /\ OtherIdle

SpecScenario == ScenarioInit /\ [][CreateChunks]_vars

\* the section of the scenario and its paragraphs
ScenarioSection == split_by_sections(wikitext)[1]
ScenarioParagraphs == Split(ScenarioSection.content, PARSEP)

IsScenarioB ==
    /\ chunk_pc = "done"
    /\ Len(split_by_sections(wikitext)) = 1
    /\ ScenarioSection.heading # <<>>
    /\ Len(ScenarioParagraphs) = 3
    /\ estimate_tokens(SectionText(ScenarioSection)) > max_tokens

WithinBudget == \A k \in 1..Len(chunks) : estimate_tokens(chunks[k]) <= max_tokens

\* C21, as stated -- scenario B: exactly two chunks, the first being the
\* heading plus paragraph 1 alone, each chunk within the budget.
C21_FirstChunkIsHeadingAndParagraph1 ==
    IsScenarioB
    => /\ Len(chunks) = 2
       /\ chunks[1] = Join(<<ScenarioSection.heading, ScenarioParagraphs[1]>>, PARSEP)
       /\ WithinBudget

\* C21, amended -- scenario B: exactly two chunks, the first being the
\* heading with paragraphs 1 and 2 (which fit the budget together), the
\* second paragraph 3 alone, each chunk within the budget.
C21_FirstChunkIsHeadingAndParagraphs1And2 ==
    IsScenarioB
    => /\ Len(chunks) = 2
       /\ chunks[1] = Join(<<ScenarioSection.heading, ScenarioParagraphs[1],
                             ScenarioParagraphs[2]>>, PARSEP)
       /\ chunks[2] = ScenarioParagraphs[3]
       /\ WithinBudget

C21_Witness ==
    /\ IsScenarioB
    /\ Len(chunks) = 2
    /\ estimate_tokens(ScenarioParagraphs[1]) = ScenarioTokens
    /\ estimate_tokens(chunks[1]) > 2 * ScenarioTokens

\* C22 -- for an input that is empty or made of whitespace only,
\* create_chunks returns exactly one chunk, equal to the input text.
C22_BlankInputReturnedAsIs ==
    (chunk_pc = "done" /\ Strip(wikitext) = <<>>) => chunks = <<wikitext>>

(***************************************************************************)
(* mwparserfromhell.parse on a text, for the wikitext the model writes:    *)
(* plain text and templates {{name|key=value|value}}, nested in values.    *)
(* Two opening braces without their closing braces are plain text.         *)
(***************************************************************************)
\* the position of the braces closing a template whose inside begins at i
RECURSIVE CloseOf(_, _, _)
CloseOf(s, i, depth) ==
    IF i + 1 > Len(s) THEN 0
    ELSE IF s[i] = "{" /\ s[i + 1] = "{" THEN CloseOf(s, i + 2, depth + 1)
    ELSE IF s[i] = "}" /\ s[i + 1] = "}"
         THEN (IF depth = 0 THEN i ELSE CloseOf(s, i + 2, depth - 1))
    ELSE CloseOf(s, i + 1, depth)

\* the position of the first template opening at or after i
RECURSIVE OpenFrom(_, _)
OpenFrom(s, i) ==
    IF i + 1 > Len(s) THEN 0
    ELSE IF s[i] = "{" /\ s[i + 1] = "{" /\ CloseOf(s, i + 2, 0) # 0 THEN i
    ELSE OpenFrom(s, i + 1)

\* the inside of a template cut at the bars outside nested templates
RECURSIVE TopSplit(_, _, _, _)
TopSplit(s, i, depth, start) ==
    IF i > Len(s) THEN <<SubSeq(s, start, Len(s))>>
    ELSE IF i < Len(s) /\ s[i] = "{" /\ s[i + 1] = "{"
         THEN TopSplit(s, i + 2, depth + 1, start)
    ELSE IF i < Len(s) /\ s[i] = "}" /\ s[i + 1] = "}"
         THEN TopSplit(s, i + 2, depth - 1, start)
    ELSE IF s[i] = "|" /\ depth = 0
         THEN <<SubSeq(s, start, i - 1)>> \o TopSplit(s, i + 1, 0, i + 1)
    ELSE TopSplit(s, i + 1, depth, start)

\* the position of the first equals sign outside nested templates, or 0
RECURSIVE TopEq(_, _, _)
TopEq(s, i, depth) ==
    IF i > Len(s) THEN 0
    ELSE IF i < Len(s) /\ s[i] = "{" /\ s[i + 1] = "{" THEN TopEq(s, i + 2, depth + 1)
    ELSE IF i < Len(s) /\ s[i] = "}" /\ s[i + 1] = "}" THEN TopEq(s, i + 2, depth - 1)
    ELSE IF s[i] = "=" /\ depth = 0 THEN i
    ELSE TopEq(s, i + 1, depth)

RECURSIVE parse_wikitext(_)
RECURSIVE ParseParams(_, _)
ParseParams(parts, pos) ==
    IF parts = <<>> THEN <<>>
    ELSE LET e == TopEq(parts[1], 1, 0)
         IN  IF e = 0
             THEN <<Positional(Decimal(pos), parse_wikitext(parts[1]))>>
                  \o ParseParams(Tail(parts), pos + 1)
             ELSE <<Param(SubSeq(parts[1], 1, e - 1),
                          parse_wikitext(SubSeq(parts[1], e + 1, Len(parts[1]))))>>
                  \o ParseParams(Tail(parts), pos)

parse_wikitext(s) ==
    IF s = <<>> THEN <<>>
    ELSE LET p == OpenFrom(s, 1)
         IN  IF p = 0 THEN <<TextNode(s)>>
             ELSE LET q == CloseOf(s, p + 2, 0)
                      parts == TopSplit(SubSeq(s, p + 2, q - 1), 1, 0, 1)
                  IN  (IF p > 1 THEN <<TextNode(SubSeq(s, 1, p - 1))>> ELSE <<>>)
                      \o <<Template(parts[1], ParseParams(Tail(parts), 1))>>
                      \o parse_wikitext(SubSeq(s, q + 2, Len(s)))

(***************************************************************************)
(* translation_pipeline.py: the translation path of process_single_page    *)
(* (lines 139-216), one action per step, on texts.  steps records the      *)
(* steps in the order they are taken.  The budget of line 199 is 7000; a   *)
(* budget at the scale of the model's texts is drawn as well, under which  *)
(* the masked text gives several chunks.                                   *)
(***************************************************************************)
PipelineBudgets == {3, PipelineMaxTokens}

OrderMenu ==
    { \* x
      TextNode(<<"x">>),
      \* a paragraph and a blank line
      TextNode(<<"x", "x", "x", "x", "x", "x", "x", NL, NL>>),
      \* a level-2 heading and a line
      TextNode(<<NL, "=", "=", "h", "=", "=", NL, "x", "x", "x", "x", NL>>),
      \* {{Box|json=A/B.json}}
      Template(<<"B", "o", "x">>, <<Param(K_json, Txt(K_A_B_json))>>),
      \* {{Box|image=x|ka=x}}
      Template(<<"B", "o", "x">>, <<Param(K_image, Txt(<<"x">>)),
                                    Param(<<"k", "a">>, Txt(<<"x">>))>>) }

OrderDocs == UNION {[1..n -> OrderMenu] : n \in 0..MaxNodes}

OrderInit ==
    /\ json_doc \in OrderDocs
    /\ ai_mode \in {"keep", "translate"}
    /\ chunk_budget \in PipelineBudgets
    /\ json_refs = <<>>
    /\ json_placeholder_mapping = <<>>
    /\ json_chunks = <<>>
    /\ new_wikitext = <<>>
    /\ json_pc = "start"
    /\ steps = <<>>
    /\ wikitext_with_placeholders = <<>>
    /\ masked_wikitext = <<>>
    /\ template_mapping = <<>>
    /\ translated_chunks = <<>>
    /\ new_wikitext_masked = <<>>
    /\ unmasked_wikitext = <<>>
    /\ restored_wikitext = <<>>
    /\ ChunkIdle
    /\ MaskIdle
    /\ RestoreIdle
    /\ ExtractIdle
    /\ PageIdle
    /\ LaterIdle

\* lines 139-187: the references and their target paths
ExtractJsonRefs ==
    /\ json_pc = "start"
    /\ LET refs == extract_json_template_params(Parse(json_doc, FALSE))
       IN  /\ json_refs' = refs
           /\ json_placeholder_mapping' = PlaceholderMapping(refs, 0, ai_mode)
    /\ steps' = Append(steps, "extract_json_refs")
    /\ json_pc' = "extracted"
    /\ UNCHANGED <<json_doc, ai_mode, json_chunks, new_wikitext>>
    /\ UNCHANGED <<wikitext_with_placeholders, masked_wikitext, template_mapping,
                   translated_chunks, new_wikitext_masked, unmasked_wikitext,
                   restored_wikitext, chunk_budget>>
    /\ UNCHANGED <<chunkVars, maskVars, restoreVars, extractVars, pageVars>>
    /\ UNCHANGED besideOrder

\* lines 189-193: the references replaced by placeholders
ReplaceByPlaceholders ==
    /\ json_pc = "extracted"
    /\ wikitext_with_placeholders' = Serialize(WithPlaceholders(json_doc, json_refs, 0))
    /\ steps' = Append(steps, "replace_by_placeholders")
    /\ json_pc' = "replaced"
    /\ UNCHANGED <<json_doc, ai_mode, json_refs, json_placeholder_mapping, json_chunks,
                   new_wikitext>>
    /\ UNCHANGED <<masked_wikitext, template_mapping, translated_chunks,
                   new_wikitext_masked, unmasked_wikitext, restored_wikitext,
                   chunk_budget>>
    /\ UNCHANGED <<chunkVars, maskVars, restoreVars, extractVars, pageVars>>
    /\ UNCHANGED besideOrder

\* line 196: mask_templates_for_translation
MaskTemplates ==
    /\ json_pc = "replaced"
    /\ LET m == MaskOrPassThrough(wikitext_with_placeholders,
                                  Parse(parse_wikitext(wikitext_with_placeholders), FALSE))
       IN  /\ masked_wikitext' = m.text
           /\ template_mapping' = m.mapping
    /\ steps' = Append(steps, "mask")
    /\ json_pc' = "masked"
    /\ UNCHANGED <<json_doc, ai_mode, json_refs, json_placeholder_mapping, json_chunks,
                   new_wikitext>>
    /\ UNCHANGED <<wikitext_with_placeholders, translated_chunks, new_wikitext_masked,
                   unmasked_wikitext, restored_wikitext, chunk_budget>>
    /\ UNCHANGED <<chunkVars, maskVars, restoreVars, extractVars, pageVars>>
    /\ UNCHANGED besideOrder

\* line 199: create_chunks
ChunkMasked ==
    /\ json_pc = "masked"
    /\ json_chunks' = create_chunks(masked_wikitext, chunk_budget)
    /\ steps' = Append(steps, "chunk")
    /\ json_pc' = "chunked"
    /\ UNCHANGED <<json_doc, ai_mode, json_refs, json_placeholder_mapping, new_wikitext>>
    /\ UNCHANGED <<wikitext_with_placeholders, masked_wikitext, template_mapping,
                   translated_chunks, new_wikitext_masked, unmasked_wikitext,
                   restored_wikitext, chunk_budget>>
    /\ UNCHANGED <<chunkVars, maskVars, restoreVars, extractVars, pageVars>>
    /\ UNCHANGED besideOrder

\* the loop over the chunks taken from the last chunk to the first
NextChunk_reversed(cs, done) == cs[Len(cs) - Len(done)]

\* `for i, chunk in enumerate(chunks)`: the chunk of the next turn, done
\* being the chunks already transformed
NextChunk(cs, done) == cs[Len(done) + 1]

\* lines 204-207: one turn of the loop over the chunks
TranslateChunk ==
    /\ json_pc = "chunked"
    /\ Len(translated_chunks) < Len(json_chunks)
    /\ translated_chunks' =
           Append(translated_chunks,
                  AiChunk(NextChunk(json_chunks, translated_chunks), ai_mode))
    /\ steps' = Append(steps, "translate_chunk")
    /\ UNCHANGED <<jsonVars>>
    /\ UNCHANGED <<wikitext_with_placeholders, masked_wikitext, template_mapping,
                   new_wikitext_masked, unmasked_wikitext, restored_wikitext,
                   chunk_budget>>
    /\ UNCHANGED <<chunkVars, maskVars, restoreVars, extractVars, pageVars>>
    /\ UNCHANGED besideOrder

\* line 209: '\n\n'.join(translated_chunks), after the loop
Concatenate ==
    /\ json_pc = "chunked"
    /\ Len(translated_chunks) = Len(json_chunks)
    /\ new_wikitext_masked' = Join(translated_chunks, PARSEP)
    /\ steps' = Append(steps, "concatenate")
    /\ json_pc' = "joined"
    /\ UNCHANGED <<json_doc, ai_mode, json_refs, json_placeholder_mapping, json_chunks,
                   new_wikitext>>
    /\ UNCHANGED <<wikitext_with_placeholders, masked_wikitext, template_mapping,
                   translated_chunks, unmasked_wikitext, restored_wikitext,
                   chunk_budget>>
    /\ UNCHANGED <<chunkVars, maskVars, restoreVars, extractVars, pageVars>>
    /\ UNCHANGED besideOrder

\* line 211: restore_masked_templates
UnmaskJoined ==
    /\ json_pc = "joined"
    /\ unmasked_wikitext' = restore_masked_templates(new_wikitext_masked, template_mapping)
    /\ steps' = Append(steps, "unmask")
    /\ json_pc' = "unmasked"
    /\ UNCHANGED <<json_doc, ai_mode, json_refs, json_placeholder_mapping, json_chunks,
                   new_wikitext>>
    /\ UNCHANGED <<wikitext_with_placeholders, masked_wikitext, template_mapping,
                   translated_chunks, new_wikitext_masked, restored_wikitext,
                   chunk_budget>>
    /\ UNCHANGED <<chunkVars, maskVars, restoreVars, extractVars, pageVars>>
    /\ UNCHANGED besideOrder

\* line 213: restore_protected_template_params(wikitext, new_wikitext)
RestoreProtected ==
    /\ json_pc = "unmasked"
    /\ restored_wikitext' =
           RestoreOrPassThrough(unmasked_wikitext,
                                Parse(parse_wikitext(Serialize(json_doc)), FALSE),
                                Parse(parse_wikitext(unmasked_wikitext), FALSE))
    /\ steps' = Append(steps, "restore_protected")
    /\ json_pc' = "restored"
    /\ UNCHANGED <<json_doc, ai_mode, json_refs, json_placeholder_mapping, json_chunks,
                   new_wikitext>>
    /\ UNCHANGED <<wikitext_with_placeholders, masked_wikitext, template_mapping,
                   translated_chunks, new_wikitext_masked, unmasked_wikitext,
                   chunk_budget>>
    /\ UNCHANGED <<chunkVars, maskVars, restoreVars, extractVars, pageVars>>
    /\ UNCHANGED besideOrder

\* lines 215-216: the placeholders replaced by the target paths
SubstitutePlaceholders ==
    /\ json_pc = "restored"
    /\ new_wikitext' = ReplacePlaceholders(restored_wikitext, json_placeholder_mapping)
    /\ steps' = Append(steps, "substitute_placeholders")
    /\ json_pc' = "done"
    /\ UNCHANGED <<json_doc, ai_mode, json_refs, json_placeholder_mapping, json_chunks>>
    /\ UNCHANGED <<wikitext_with_placeholders, masked_wikitext, template_mapping,
                   translated_chunks, new_wikitext_masked, unmasked_wikitext,
                   restored_wikitext, chunk_budget>>
    /\ UNCHANGED <<chunkVars, maskVars, restoreVars, extractVars, pageVars>>
    /\ UNCHANGED besideOrder

OrderNext ==
    \/ ExtractJsonRefs
    \/ ReplaceByPlaceholders
    \/ MaskTemplates
    \/ ChunkMasked
    \/ TranslateChunk
    \/ Concatenate
    \/ UnmaskJoined
    \/ RestoreProtected
    \/ SubstitutePlaceholders

SpecOrder == OrderInit /\ [][OrderNext]_vars

(***************************************************************************)
(* Claims about the translation path.                                      *)
(***************************************************************************)
StepsBeforeChunks ==
    <<"extract_json_refs", "replace_by_placeholders", "mask", "chunk">>

StepsAfterChunks ==
    <<"concatenate", "unmask", "restore_protected", "substitute_placeholders">>

\* the steps of a whole run over n chunks
StepsOfRun(n) ==
    StepsBeforeChunks \o [i \in 1..n |-> "translate_chunk"] \o StepsAfterChunks

ChunksKnown == json_pc \notin {"start", "extracted", "replaced", "masked"}

\* C23 -- step order on the translation path: the steps are taken in the
\* order extract references, replace by placeholders, mask, chunk, transform
\* each chunk, concatenate, unmask, restore protected values, substitute
\* placeholders, each once per page (the transformation once per chunk); the
\* transformed chunks are concatenated in the order create_chunks returned
\* them; the restoration works on the unmasked concatenation of all chunks
\* and on the original wikitext.
C23_StepOrder ==
    /\ ~ChunksKnown => IsPrefix(steps, StepsBeforeChunks)
    /\ ChunksKnown => IsPrefix(steps, StepsOfRun(Len(json_chunks)))
    /\ json_pc = "done" => steps = StepsOfRun(Len(json_chunks))
    /\ json_pc \in {"joined", "unmasked", "restored", "done"}
       => /\ Len(translated_chunks) = Len(json_chunks)
          /\ new_wikitext_masked = Join(TranslatedChunks(json_chunks, ai_mode), PARSEP)
    /\ json_pc \in {"restored", "done"}
       => /\ unmasked_wikitext
               = restore_masked_templates(
                     Join(TranslatedChunks(json_chunks, ai_mode), PARSEP), template_mapping)
          /\ restored_wikitext
               = restore_protected_template_params(
                     parse_wikitext(Serialize(json_doc)), parse_wikitext(unmasked_wikitext))

\* C23 witness: a page whose masked text gave several different chunks has
\* gone through all the steps, and the restoration has put back a protected
\* value that the transformation had changed.
C23_Witness ==
    /\ json_pc = "done"
    /\ Len(json_chunks) >= 2
    /\ json_chunks[1] # json_chunks[Len(json_chunks)]
    /\ restored_wikitext # unmasked_wikitext
    /\ steps = StepsOfRun(Len(json_chunks))

(***************************************************************************)
(* Claims about the correlation of restore_protected_template_params.      *)
(***************************************************************************)
\* the names of the templates of a document, in list order
TemplateNames(code) ==
    [i \in 1..Len(filter_templates(code)) |-> filter_templates(code)[i].name]

\* the translated document has a template inserted, deleted, reordered or
\* renamed with respect to the original
StructureDiffers == TemplateNames(original) # TemplateNames(translated)

\* tcode is a part of the translated document whose first template has list
\* index idx, rcode the same part of the returned document: a parameter whose
\* (index, normalized key) is registered carries the registered value, any
\* other parameter is as transformed, its nested templates being handled at
\* their own index
RECURSIVE ByPositionOnly(_, _, _)
RECURSIVE ParamsByPositionOnly(_, _, _, _)
ParamsByPositionOnly(tps, rps, idx, next) ==
    \/ tps = <<>> /\ rps = <<>>
    \/ /\ tps # <<>>
       /\ rps # <<>>
       /\ rps[1].name = tps[1].name
       /\ LET key == <<idx, normalize_param_name(tps[1].name)>>
              reg == OriginalValues(original)
          IN  IF key \in DOMAIN reg
              THEN Serialize(rps[1].value) = reg[key]
              ELSE IF filter_templates(tps[1].value) = <<>>
              THEN rps[1].value = tps[1].value
              ELSE ByPositionOnly(tps[1].value, rps[1].value, next)
       /\ ParamsByPositionOnly(Tail(tps), Tail(rps), idx,
                               next + Len(filter_templates(tps[1].value)))

ByPositionOnly(tcode, rcode, idx) ==
    \/ tcode = <<>> /\ rcode = <<>>
    \/ /\ tcode # <<>>
       /\ rcode # <<>>
       /\ tcode[1].kind = rcode[1].kind
       /\ tcode[1].kind = "text" => rcode[1] = tcode[1]
       /\ tcode[1].kind = "tpl" =>
            /\ rcode[1].name = tcode[1].name
            /\ ParamsByPositionOnly(tcode[1].params, rcode[1].params, idx, idx + 1)
       /\ ByPositionOnly(Tail(tcode), Tail(rcode),
                         idx + Len(filter_templates(<<tcode[1]>>)))

\* C24 -- restoration correlates by position only: whatever the names and
\* the number of the templates of the two documents, the call returns, and
\* in the returned text the parameter of key k of the template at list index
\* i carries the original value registered under (i, k) when there is one,
\* and is left as transformed when there is none, protected or not.
C24_CorrelatesByPositionOnly ==
    restore_pc \in {"once", "twice"} =>
        /\ restored = Serialize(restored_code)
        /\ ByPositionOnly(translated, restored_code, 0)

\* C24 witness: the translated document has another template name at index
\* 0 and another number of templates than the original; the template at
\* index 0 received the value registered at index 0 and a protected
\* parameter at an index without entry kept its transformed value.
C24_Witness ==
    /\ restore_pc = "once"
    /\ StructureDiffers
    /\ Len(filter_templates(original)) # Len(filter_templates(translated))
    /\ filter_templates(original) # <<>>
    /\ filter_templates(translated) # <<>>
    /\ filter_templates(original)[1].name # filter_templates(translated)[1].name
    /\ IsSubstr(<<"{", "{", "B", "x", "|", " ", "I", "m", "a", "g", "e", " ", "=", "a">>,
                restored)
    /\ IsSubstr(<<"{", "{", "B", "o", "x", "|", "i", "c", "o", "n", "e", "=", "q">>,
                restored)

(***************************************************************************)
(* More claims about process_single_page.                                  *)
(***************************************************************************)
\* C25 -- no duplicate target page under force: when the source page has a
\* langlink for the target language and force is set, the title is not
\* translated anew, and the existence check, the publication and every
\* interwiki marker use the title of the langlink; no page of another title
\* is written to the target wiki.
C25_ForceReusesLanglinkTitle ==
    (TargetLang \in langlinks /\ force)
    => /\ page_pc \notin {"start", "title"} => target_title = LanglinkTitle
       /\ \A i \in DOMAIN calls :
              /\ calls[i].by # "_translate_title"
              /\ (calls[i].wiki = "target"
                  /\ calls[i].op \in {"page_exists", "create_or_update_page"})
                 => calls[i].title = LanglinkTitle
              /\ calls[i].op = "add_or_update_interwiki_link"
                 => calls[i].marker = LanglinkTitle
       /\ \A k \in DOMAIN target_wiki :
              target_wiki[k].kind = "page" => target_wiki[k].title = LanglinkTitle

C25_Witness ==
    /\ page_pc = "done"
    /\ TargetLang \in langlinks
    /\ force
    /\ target_state = "page"
    /\ Edit(LanglinkTitle, "page") \in {target_wiki[k] : k \in DOMAIN target_wiki}
    /\ CallsOf("source", "add_or_update_interwiki_link") # {}

(***************************************************************************)
(* process_single_page called with any title: the guard of line 99-100     *)
(* before the steps of SpecPage.                                           *)
(***************************************************************************)
Titles == {<<>>, <<"#">>, <<"#", "P">>, <<"P">>, <<"P", "#">>}

AuditInit ==
    /\ page_title \in Titles
    /\ force \in BOOLEAN
    /\ dry_run \in BOOLEAN
    /\ langlinks \in SUBSET {TargetLang, OtherLang}
    /\ target_state \in {"missing", "page", "redirect"}
    /\ has_wikitext \in BOOLEAN
    /\ n_json \in 0..MaxJsonRefs
    /\ marker_present \in BOOLEAN
    /\ target_title = ""
    /\ calls = <<>>
    /\ log_rows = <<>>
    /\ source_wiki = <<>>
    /\ target_wiki = <<>>
    /\ other_wiki = <<>>
    /\ page_pc = "start"
    /\ ChunkIdle
    /\ MaskIdle
    /\ RestoreIdle
    /\ ExtractIdle
    /\ JsonIdle
    /\ OtherIdle

\* line 99-100: an empty title or a comment line of the page list
IgnoreTitle ==
    /\ page_pc = "start"
    /\ ~TitleOk(page_title)
    /\ page_pc' = "done"
    /\ UNCHANGED <<pageInputs, target_title, calls, log_rows, source_wiki, target_wiki,
                   other_wiki>>
    /\ UNCHANGED <<chunkVars, maskVars, restoreVars, extractVars, jsonVars>>
    /\ UNCHANGED otherVars

AuditNext == IgnoreTitle \/ PageNext

SpecAudit == AuditInit /\ [][AuditNext]_vars

AllStatuses == {"skipped", "linked", "error", "translated"}

NothingWritten ==
    /\ \A i \in DOMAIN calls : calls[i].op \notin WriteOps
    /\ source_wiki = <<>>
    /\ target_wiki = <<>>
    /\ other_wiki = <<>>

\* process_single_page has fetched the source wikitext for translation
FetchedForTranslation ==
    \E i \in CallsOf("source", "fetch_page_wikitext") :
        calls[i].by = "process_single_page" /\ calls[i].title = SourceTitle

\* what C30 says of the rows, whatever 'error' stands for
OneRowPerPage ==
    /\ page_pc # "done" => log_rows = <<>>
    /\ (page_pc = "done" /\ TitleOk(page_title))
       => Len(log_rows) = 1 /\ log_rows[1] \in AllStatuses
    /\ (page_pc = "done" /\ ~TitleOk(page_title))
       => log_rows = <<>> /\ calls = <<>> /\ NothingWritten
    /\ (page_pc = "done" /\ log_rows = <<"translated">>)
       => \E i \in CallsOf("ai", "translate_chunk") :
              calls[i].by = "process_single_page" /\ calls[i].title = SourceTitle

\* C30, as stated -- audit log: one row per page with an accepted title, of
\* status skipped, linked, error or translated; the status is 'error'
\* exactly when the source wikitext is missing, and then nothing is written
\* to any wiki; 'translated' only after the transformation; no row and no
\* call for an empty or '#'-prefixed title.
C30_ErrorIffWikitextMissing ==
    /\ OneRowPerPage
    /\ (page_pc = "done" /\ TitleOk(page_title))
       => /\ log_rows = <<"error">> <=> ~has_wikitext
          /\ ~has_wikitext => NothingWritten

\* C30, amended -- as above, but the status is 'error' exactly when the run
\* gets as far as fetching the source wikitext for translation (the page is
\* neither skipped nor only linked) and the wikitext is missing; in that
\* case nothing is written to any wiki.
C30_ErrorIffFetchFindsNothing ==
    /\ OneRowPerPage
    /\ (page_pc = "done" /\ TitleOk(page_title))
       => /\ log_rows = <<"error">> <=> (FetchedForTranslation /\ ~has_wikitext)
          /\ log_rows = <<"error">> => NothingWritten

C30_Witness ==
    /\ page_pc = "done"
    /\ TitleOk(page_title)
    /\ ~has_wikitext
    /\ log_rows = <<"error">>
    /\ ~dry_run
    /\ NothingWritten

(***************************************************************************)
(* Claims about the consistency of the sub-resource references.            *)
(***************************************************************************)
\* line 180-181: the paths at which create_or_update_json_page is called
CreatedJsonPages(refs, mode, dry) ==
    IF dry THEN {}
    ELSE {TargetJsonPath(refs[i], mode) : i \in {k \in 1..Len(refs) : IsJsonPath(refs[k])}}

\* the values of the json parameters of the published text
PublishedRefs == extract_json_template_params(Parse(parse_wikitext(new_wikitext), FALSE))

\* C29 -- JSON reference consistency, dry_run off: the published text holds
\* no JSON_PATH placeholder and no original path of a reference of the form
\* Base/Sub.json; the path standing in place of each such reference is a
\* path at which a JSON page was created in the run, also when a reference
\* occurs twice or is a substring of another; the other references are
\* unchanged.
C29_PublishedPathsAreCreatedPages ==
    json_pc = "done" =>
        /\ \A i \in 0..Len(json_refs) : ~IsSubstr(JsonPlaceholder(i), new_wikitext)
        /\ \A raw \in ValidRefs : ~IsSubstr(raw, new_wikitext)
        /\ Len(PublishedRefs) = Len(json_refs)
        /\ \A i \in 1..Len(json_refs) :
              IF IsJsonPath(json_refs[i])
              THEN PublishedRefs[i] \in CreatedJsonPages(json_refs, ai_mode, FALSE)
              ELSE PublishedRefs[i] = json_refs[i]

(***************************************************************************)
(* mediawiki_client.py: add_or_update_interwiki_link.                      *)
(***************************************************************************)
LBLB == <<"[", "[">>
RBRB == <<"]", "]">>
BACKSLASH == "\\"

\* [a-zA-Z-]
IsLangChar(c) ==
    \/ c = "-"
    \/ \E i \in 1..26 : c = LowerChars[i] \/ c = UpperChars[i]

\* the length of the longest run of [a-zA-Z-] that starts at p
RECURSIVE LangRun(_, _)
LangRun(s, p) == IF p <= Len(s) /\ IsLangChar(s[p]) THEN 1 + LangRun(s, p + 1) ELSE 0

\* the length of the longest run of [^\]] that starts at p
RECURSIVE TitleRun(_, _)
TitleRun(s, p) == IF p <= Len(s) /\ s[p] # "]" THEN 1 + TitleRun(s, p + 1) ELSE 0

\* 1 when the optional colon of `:?` is taken at p, else 0
ColonAt(s, p) == IF p <= Len(s) /\ s[p] = ":" THEN 1 ELSE 0

\* line 222: re.match(r"\[\[:?([a-zA-Z-]+):([^\]]+)\]\]", marker); group 1,
\* or <<>> when there is no match
MarkerLang(marker) ==
    LET c == ColonAt(marker, 3)
        n == LangRun(marker, 3 + c)
        q == 3 + c + n
        t == TitleRun(marker, q + 1)
    IN  IF /\ OccursAt(marker, LBLB, 1)
           /\ n >= 1
           /\ q <= Len(marker)
           /\ marker[q] = ":"
           /\ t >= 1
           /\ OccursAt(marker, RBRB, q + 1 + t)
        THEN SubSeq(marker, 3 + c, q - 1)
        ELSE <<>>

\* line 226: the pattern \[\[:?lang:[^\]]+\]\] matched at p; the position
\* after the match, or 0 when there is no match at p
LinkMatchEnd(s, p, lang) ==
    LET c == ColonAt(s, p + 2)
        q == p + 2 + c + Len(lang)
        t == TitleRun(s, q + 1)
    IN  IF /\ OccursAt(s, LBLB, p)
           /\ OccursAt(s, lang, p + 2 + c)
           /\ q <= Len(s)
           /\ s[q] = ":"
           /\ t >= 1
           /\ OccursAt(s, RBRB, q + 1 + t)
        THEN q + 1 + t + 2
        ELSE 0

\* the positions at which the pattern of the language matches
LinkStarts(s, lang) == {p \in 1..Len(s) : LinkMatchEnd(s, p, lang) > 0}

\* line 227: pattern.search(content): the first position, or 0
SearchLink(s, lang) ==
    IF LinkStarts(s, lang) = {} THEN 0
    ELSE CHOOSE p \in LinkStarts(s, lang) : \A o \in LinkStarts(s, lang) : p <= o

\* re.sub expands the escapes of a replacement string: \n, \t, \r and \\
\* stand for one character, a backslash before another ASCII letter or a
\* digit, or at the end, raises re.error (there is no group to refer to,
\* and \g is not followed by <), a backslash before anything else is kept.
\* The result is [ok, text].
RECURSIVE ExpandTemplate(_)
ExpandTemplate(repl) ==
    IF repl = <<>> THEN [ok |-> TRUE, text |-> <<>>]
    ELSE IF repl[1] # BACKSLASH
    THEN LET rest == ExpandTemplate(Tail(repl))
         IN  [ok |-> rest.ok, text |-> <<repl[1]>> \o rest.text]
    ELSE IF Len(repl) = 1 THEN [ok |-> FALSE, text |-> <<>>]
    ELSE LET e == repl[2]
             rest == ExpandTemplate(Tail_(repl, 3))
         IN  IF e \in {"n", "t", "r", BACKSLASH}
             THEN [ok |-> rest.ok,
                   text |-> <<CASE e = "n" -> "\n" [] e = "t" -> "\t"
                                [] e = "r" -> "\r" [] OTHER -> BACKSLASH>>
                            \o rest.text]
             ELSE IF (IsLangChar(e) /\ e # "-")
                     \/ (\E i \in 1..10 : e = DigitChar[i])
             THEN [ok |-> FALSE, text |-> <<>>]
             ELSE [ok |-> rest.ok, text |-> <<BACKSLASH, e>> \o rest.text]

\* line 228: pattern.sub(interwiki_marker, content, count=1), as [ok, text]
SubFirst(content, lang, marker) ==
    LET p == SearchLink(content, lang)
        e == LinkMatchEnd(content, p, lang)
        repl == ExpandTemplate(marker)
    IN  [ok |-> repl.ok,
         text |-> SubSeq(content, 1, p - 1) \o repl.text \o Tail_(content, e)]

\* line 215: fetch_page_wikitext(title) or ''
FetchedOrEmpty(page) == IF page.exists THEN page.text ELSE <<>>

\* lines 232-233: content + f"{sep}{interwiki_marker}\n"
Appended(content, marker) ==
    content
    \o (IF content # <<>> /\ content[Len(content)] = NL THEN <<>> ELSE <<NL>>)
    \o marker \o <<NL>>

\* add_or_update_interwiki_link: what the call does, "skip" | "edit" |
\* "raise", and the page it leaves
add_or_update_interwiki_link(page, marker) ==
    LET content == FetchedOrEmpty(page)
        lang == MarkerLang(marker)
    IN  IF IsSubstr(marker, content)
        THEN [did |-> "skip", page |-> page]
        ELSE IF lang # <<>> /\ SearchLink(content, lang) # 0
        THEN LET new == SubFirst(content, lang, marker)
             IN  IF new.ok
                 THEN [did |-> "edit", page |-> [exists |-> TRUE, text |-> new.text]]
                 ELSE [did |-> "raise", page |-> page]
        ELSE [did |-> "edit",
              page |-> [exists |-> TRUE, text |-> Appended(content, marker)]]

\* the number of pieces of a page of the menu
MaxPieces == 3

\* [[lang:title]] and [[:lang:title]]
InterwikiLink(lang, ptitle) == LBLB \o lang \o <<":">> \o ptitle \o RBRB
ColonLink(lang, ptitle) == LBLB \o <<":">> \o lang \o <<":">> \o ptitle \o RBRB

L_en == <<"e", "n">>
L_fr == <<"f", "r">>

PieceMenu ==
    { <<"x">>, <<NL>>,
      InterwikiLink(L_en, <<"A">>), InterwikiLink(L_en, <<"B">>),
      InterwikiLink(L_fr, <<"A">>), ColonLink(L_en, <<"A">>) }

RECURSIVE Concat(_)
Concat(parts) == IF parts = <<>> THEN <<>> ELSE parts[1] \o Concat(Tail(parts))

LinkPages ==
    {[exists |-> FALSE, text |-> <<>>]}
    \cup {[exists |-> TRUE, text |-> Concat(ps)] :
            ps \in UNION {[1..n -> PieceMenu] : n \in 0..MaxPieces}}

\* the markers of the callers, f"[[{lang}:{title}]]", for titles with and
\* without a backslash, and for the empty title
MarkerTitles ==
    { <<>>, <<"A">>, <<"B">>, <<"A", BACKSLASH, "n">>, <<"A", BACKSLASH, "B">>,
      <<"A", BACKSLASH, BACKSLASH>> }

Markers == {InterwikiLink(l, t) : l \in {L_en, L_fr}, t \in MarkerTitles}

LinkInit ==
    /\ lk_page \in LinkPages
    /\ interwiki_marker \in Markers
    /\ lk_results = <<>>
    /\ lk_history = <<lk_page>>
    /\ EarlierIdle
    /\ SyncIdle
    /\ ClusterIdle

\* the first call
AddLink ==
    /\ Len(lk_results) = 0
    /\ LET r == add_or_update_interwiki_link(lk_page, interwiki_marker)
       IN  /\ lk_page' = r.page
           /\ lk_results' = Append(lk_results, r.did)
           /\ lk_history' = Append(lk_history, r.page)
    /\ UNCHANGED interwiki_marker
    /\ UNCHANGED <<earlierVars, syncVars, clusterVars>>

\* the same call, made again at once
AddLinkAgain ==
    /\ Len(lk_results) = 1
    /\ LET r == add_or_update_interwiki_link(lk_page, interwiki_marker)
       IN  /\ lk_page' = r.page
           /\ lk_results' = Append(lk_results, r.did)
           /\ lk_history' = Append(lk_history, r.page)
    /\ UNCHANGED interwiki_marker
    /\ UNCHANGED <<earlierVars, syncVars, clusterVars>>

LinkNext == AddLink \/ AddLinkAgain

SpecLink == LinkInit /\ [][LinkNext]_vars

(***************************************************************************)
(* Claims about add_or_update_interwiki_link.                              *)
(***************************************************************************)
\* the number of links of the language in a text
LinkCount(s, lang) == Cardinality(LinkStarts(s, lang))

\* what the first call is expected to do to the text it fetched
ExpectedAfterFirst(before, marker) ==
    LET lang == MarkerLang(marker)
        p == SearchLink(before, lang)
    IN  IF IsSubstr(marker, before) THEN before
        ELSE IF lang # <<>> /\ p # 0
        THEN SubSeq(before, 1, p - 1) \o marker
             \o Tail_(before, LinkMatchEnd(before, p, lang))
        ELSE Appended(before, marker)

\* C27 -- add_or_update_interwiki_link: no edit when the marker is already
\* in the page; otherwise the first link of the marker's language is
\* replaced by the marker, and no second link is appended; otherwise the
\* marker is appended; after any call the page contains the marker, and the
\* same call made again at once makes no edit.
C27_OneLinkPerLanguageIdempotent ==
    LET before == FetchedOrEmpty(lk_history[1])
        lang == MarkerLang(interwiki_marker)
    IN  /\ Len(lk_results) >= 1 =>
              /\ (lk_results[1] = "skip") = IsSubstr(interwiki_marker, before)
              /\ lk_results[1] = "skip" => lk_history[2] = lk_history[1]
              /\ lk_results[1] # "skip" =>
                    /\ lk_results[1] = "edit"
                    /\ lk_history[2].text = ExpectedAfterFirst(before, interwiki_marker)
              /\ (lang # <<>> /\ LinkCount(before, lang) >= 1) =>
                    LinkCount(lk_history[2].text, lang) = LinkCount(before, lang)
              /\ IsSubstr(interwiki_marker, lk_history[2].text)
        /\ Len(lk_results) = 2 =>
              /\ lk_results[2] = "skip"
              /\ lk_history[3] = lk_history[2]

(***************************************************************************)
(* scripts/sync_interwiki.py: ensure_links_on_page.                        *)
(***************************************************************************)
L_es == <<"e", "s">>

\* the language codes of the wikis
SyncLangs == {L_en, L_fr, L_es}

\* get_interwiki_pattern matched at p: the prefix of the match, or <<>>
\* when no prefix matches at p (with no prefix, line 73, nothing matches)
PrefixAt(s, p, prefixes) ==
    IF \E l \in prefixes : LinkMatchEnd(s, p, l) > 0
    THEN CHOOSE l \in prefixes : LinkMatchEnd(s, p, l) > 0
    ELSE <<>>

\* the first position >= from at which the pattern matches, or 0
NextInterwiki(s, from, prefixes) ==
    LET hits == {p \in from..Len(s) : PrefixAt(s, p, prefixes) # <<>>}
    IN  IF hits = {} THEN 0 ELSE CHOOSE p \in hits : \A o \in hits : p <= o

\* group 2 of the match of the prefix l at p
TitleAt(s, p, l) ==
    LET q == p + 2 + ColonAt(s, p + 2) + Len(l)
    IN  SubSeq(s, q + 1, q + TitleRun(s, q + 1))

\* pattern.finditer(content): the matches from `from` on, as <<lang, title>>
RECURSIVE InterwikiMatches(_, _, _)
InterwikiMatches(s, from, prefixes) ==
    LET p == NextInterwiki(s, from, prefixes)
        l == PrefixAt(s, p, prefixes)
    IN  IF p = 0 THEN <<>>
        ELSE <<<<l, TitleAt(s, p, l)>>>>
             \o InterwikiMatches(s, LinkMatchEnd(s, p, l), prefixes)

\* the dictionary filled by `mapping[m.group(1)] = m.group(2)` over matches
RECURSIVE DictOfMatches(_, _)
DictOfMatches(d, ms) ==
    IF ms = <<>> THEN d
    ELSE DictOfMatches(DictPut(d, ms[1][1], ms[1][2]), Tail(ms))

\* parse_existing_interwiki
parse_existing_interwiki(content, prefixes) ==
    DictOfMatches(<<>>, InterwikiMatches(content, 1, prefixes))

\* {lang: ptitle for lang, ptitle in d.items() if lang != self_lang}
ExcludingSelf(d, self) == [l \in (DOMAIN d) \ {self} |-> d[l]]

\* interwiki_pattern.sub('', content)
RECURSIVE RemoveInterwiki(_, _)
RemoveInterwiki(s, prefixes) ==
    LET p == NextInterwiki(s, 1, prefixes)
        l == PrefixAt(s, p, prefixes)
    IN  IF p = 0 THEN s
        ELSE SubSeq(s, 1, p - 1)
             \o RemoveInterwiki(Tail_(s, LinkMatchEnd(s, p, l)), prefixes)

\* the length of the run of newlines that starts at p
RECURSIVE NLRun(_, _)
NLRun(s, p) == IF p <= Len(s) /\ s[p] = NL THEN 1 + NLRun(s, p + 1) ELSE 0

\* re.sub(r"\n{3,}", "\n\n", s)
RECURSIVE CollapseNewlines(_)
CollapseNewlines(s) ==
    IF s = <<>> THEN <<>>
    ELSE IF NLRun(s, 1) >= 3 THEN <<NL, NL>> \o CollapseNewlines(Tail_(s, NLRun(s, 1) + 1))
    ELSE <<s[1]>> \o CollapseNewlines(Tail(s))

\* ord(c) of a lower-case ASCII letter
OrdLower(c) == 96 + CHOOSE i \in 1..26 : LowerChars[i] = c

\* a < b for two language codes
RECURSIVE LangLess(_, _)
LangLess(a, b) ==
    IF b = <<>> THEN FALSE
    ELSE IF a = <<>> THEN TRUE
    ELSE IF a[1] = b[1] THEN LangLess(Tail(a), Tail(b))
    ELSE OrdLower(a[1]) < OrdLower(b[1])

\* the keys of sorted(expected.items())
RECURSIVE SortedLangs(_)
SortedLangs(ls) ==
    IF ls = {} THEN <<>>
    ELSE LET first == CHOOSE l \in ls : \A o \in ls \ {l} : LangLess(l, o)
         IN  <<first>> \o SortedLangs(ls \ {first})

\* lines 277-278: the markers of expected, sorted, joined by newlines
UnifiedBlock(expected) ==
    LET order == SortedLangs(DOMAIN expected)
    IN  Join([i \in 1..Len(order) |-> InterwikiLink(order[i], expected[order[i]])],
             <<NL>>)

\* lines 282-284: the new content of the page
NewContent(content, expected, prefixes) ==
    LET cleaned == RStrip(CollapseNewlines(RemoveInterwiki(content, prefixes)))
    IN  cleaned
        \o (IF cleaned # <<>> /\ cleaned[Len(cleaned)] = NL THEN <<>> ELSE <<NL>>)
        \o UnifiedBlock(expected) \o <<NL>>

\* ensure_links_on_page: the value returned, the number of edits made, and
\* the page left
ensure_links_on_page(page, required, self, dry, prefixes) ==
    LET content == FetchedOrEmpty(page)
        existing == parse_existing_interwiki(content, prefixes)
        expected == ExcludingSelf(required, self)
    IN  IF ExcludingSelf(existing, self) = expected
        THEN [returned |-> FALSE, edits |-> 0, page |-> page]
        ELSE IF dry
        THEN [returned |-> TRUE, edits |-> 0, page |-> page]
        ELSE [returned |-> TRUE, edits |-> 1,
              page |-> [exists |-> TRUE,
                        text |-> NewContent(content, expected, prefixes)]]

SyncPieceMenu ==
    { <<"x">>, <<NL>>,
      InterwikiLink(L_en, <<"A">>), InterwikiLink(L_en, <<"B">>),
      InterwikiLink(L_fr, <<"A">>), InterwikiLink(L_es, <<"A">>) }

SyncPages ==
    {[exists |-> FALSE, text |-> <<>>]}
    \cup {[exists |-> TRUE, text |-> Concat(ps)] :
            ps \in UNION {[1..n -> SyncPieceMenu] : n \in 0..MaxPieces}}

\* the clusters: each language has at most one title
Required ==
    UNION {[ls -> {<<"A">>, <<"B">>}] : ls \in SUBSET SyncLangs}

SyncInit ==
    /\ sync_page \in SyncPages
    /\ sync_required \in {r \in Required : \A l \in (DOMAIN r) \ {L_en} : r[l] = <<"A">>}
    /\ sync_self_lang = L_fr
    /\ sync_dry_run \in BOOLEAN
    /\ sync_prefixes \in {SyncLangs, {}}
    /\ sync_results = <<>>
    /\ sync_history = <<sync_page>>
    /\ EarlierIdle
    /\ LinkIdle
    /\ ClusterIdle

\* the call
EnsureLinks ==
    /\ Len(sync_results) = 0
    /\ LET r == ensure_links_on_page(sync_page, sync_required, sync_self_lang,
                                     sync_dry_run, sync_prefixes)
       IN  /\ sync_page' = r.page
           /\ sync_results' = Append(sync_results,
                                     [returned |-> r.returned, edits |-> r.edits])
           /\ sync_history' = Append(sync_history, r.page)
    /\ UNCHANGED <<sync_required, sync_self_lang, sync_dry_run, sync_prefixes>>
    /\ UNCHANGED <<earlierVars, linkVars, clusterVars>>

\* the same call, made again at once
EnsureLinksAgain ==
    /\ Len(sync_results) = 1
    /\ LET r == ensure_links_on_page(sync_page, sync_required, sync_self_lang,
                                     sync_dry_run, sync_prefixes)
       IN  /\ sync_page' = r.page
           /\ sync_results' = Append(sync_results,
                                     [returned |-> r.returned, edits |-> r.edits])
           /\ sync_history' = Append(sync_history, r.page)
    /\ UNCHANGED <<sync_required, sync_self_lang, sync_dry_run, sync_prefixes>>
    /\ UNCHANGED <<earlierVars, linkVars, clusterVars>>

SyncNext == EnsureLinks \/ EnsureLinksAgain

SpecSync == SyncInit /\ [][SyncNext]_vars

(***************************************************************************)
(* Claims about ensure_links_on_page.                                      *)
(***************************************************************************)
\* the interwiki links of a text to the languages other than self
OtherLinks(s, self) ==
    LET ms == InterwikiMatches(s, 1, SyncLangs)
    IN  [i \in {k \in 1..Len(ms) : ms[k][1] # self} |-> ms[i]]

\* the same links as a set of <<lang, title>>
OtherLinkSet(s, self) == {OtherLinks(s, self)[i] : i \in DOMAIN OtherLinks(s, self)}

\* the required links as a set of <<lang, title>>
RequiredSet(required, self) ==
    {<<l, required[l]>> : l \in (DOMAIN required) \ {self}}

\* C26 -- ensure_links_on_page: no edit when the interwiki links of the
\* page, its own language aside, are the required ones; otherwise exactly
\* one edit, after which they are the required ones, none stale and none
\* twice, and the same call made again makes no edit; no edit in dry-run.
C26_OneEditThenConverged ==
    LET before == FetchedOrEmpty(sync_history[1])
        wanted == RequiredSet(sync_required, sync_self_lang)
    IN  /\ Len(sync_results) >= 1 /\ sync_dry_run => sync_results[1].edits = 0
        /\ Len(sync_results) = 2 /\ sync_dry_run => sync_results[2].edits = 0
        /\ Len(sync_results) >= 1 /\ ~sync_dry_run =>
              IF OtherLinkSet(before, sync_self_lang) = wanted
              THEN sync_results[1].edits = 0
              ELSE /\ sync_results[1].edits = 1
                   /\ OtherLinkSet(sync_history[2].text, sync_self_lang) = wanted
                   /\ Cardinality(DOMAIN OtherLinks(sync_history[2].text,
                                                    sync_self_lang))
                         = Cardinality(wanted)
        /\ Len(sync_results) = 2 /\ ~sync_dry_run => sync_results[2].edits = 0

(***************************************************************************)
(* scripts/sync_interwiki.py: build_cluster, one action per iteration of   *)
(* the loop, over wikis that do not change during the call.                *)
(***************************************************************************)
T_P == <<"P">>
T_R == <<"R">>

\* the titles of the wikis; a redirect leads to the title P of its wiki
ClusterTitles == {T_P, T_R}
RedirectTarget == T_P

\* seed_lang
SeedLang == L_fr

WikiPairs == SyncLangs \X ClusterTitles

\* MediaWikiClient.resolve_redirect on the wiki of lang: the title itself
\* for a page, the target for a redirect to a page, <<>> (None) otherwise
ResolveOn(status, lang, title) ==
    IF status[<<lang, title>>] = "page" THEN title
    ELSE IF status[<<lang, title>>] = "redirect"
            /\ status[<<lang, RedirectTarget>>] = "page"
    THEN RedirectTarget
    ELSE <<>>

\* line 215 with the test left out
NotInCluster_always(llang, c) == TRUE

\* line 215: llang not in cluster
NotInCluster(llang, c) == llang \notin DOMAIN c

\* lines 214-227: the loop over links.items(), taken in the given order;
\* st is [cluster, to_visit, enqueued]
RECURSIVE FollowLinks(_, _, _, _)
FollowLinks(st, links, order, status) ==
    IF order = <<>> THEN st
    ELSE LET llang == order[1]
             resolved_ltitle == ResolveOn(status, llang, links[llang])
             next == IF NotInCluster(llang, st.cluster) /\ resolved_ltitle # <<>>
                     THEN [cluster |-> DictPut(st.cluster, llang, resolved_ltitle),
                           to_visit |-> Append(st.to_visit, <<llang, resolved_ltitle>>),
                           enqueued |-> Append(st.enqueued, <<llang, resolved_ltitle>>)]
                     ELSE st
         IN  FollowLinks(next, links, Tail(order), status)

\* the orders in which a dictionary may list its keys
Orders(keys) ==
    {o \in [1..Cardinality(keys) -> keys] : \A i, j \in DOMAIN o : o[i] = o[j] => i = j}

\* the langlinks a page of the menu may have: each other language is
\* linked to P, to R, or not at all
LinkMenu(lang) ==
    UNION {[ls -> ClusterTitles] : ls \in SUBSET (SyncLangs \ {lang})}

\* the states a title may be in; P is never a redirect
StatusMenu(pair) ==
    IF pair[2] = T_P THEN {"missing", "page"}
    ELSE IF pair[1] = L_es THEN {"missing", "page"}
    ELSE IF pair[1] = L_fr THEN {"missing", "redirect"}
    ELSE {"missing", "page", "redirect"}

\* the langlinks of the pages: none for what is not a page, and the pages
\* titled R link to nothing but the page P of es
LinksOfPage(pair, status) ==
    IF status[pair] # "page" THEN {<<>>}
    ELSE IF pair[2] = T_R THEN {<<>>, L_es :> T_P}
    ELSE IF pair[1] = L_es THEN {k \in LinkMenu(L_es) : L_en \notin DOMAIN k}
    ELSE LinkMenu(pair[1])

ClusterInit ==
    /\ page_status \in {s \in [WikiPairs -> {"missing", "page", "redirect"}] :
                          \A pair \in WikiPairs : s[pair] \in StatusMenu(pair)}
    /\ \E a \in LinksOfPage(<<L_fr, T_P>>, page_status),
          b \in LinksOfPage(<<L_en, T_P>>, page_status),
          c \in LinksOfPage(<<L_es, T_P>>, page_status),
          d \in LinksOfPage(<<L_en, T_R>>, page_status) :
          page_langlinks = [pair \in WikiPairs |->
                              IF pair = <<L_fr, T_P>> THEN a
                              ELSE IF pair = <<L_en, T_P>> THEN b
                              ELSE IF pair = <<L_es, T_P>> THEN c
                              ELSE IF pair = <<L_en, T_R>> THEN d
                              ELSE <<>>]
    /\ seed_title \in ClusterTitles
    /\ cluster = <<>>
    /\ to_visit = <<>>
    /\ visited = {}
    /\ expanded = <<>>
    /\ enqueued = <<>>
    /\ cluster_pc = "start"
    /\ EarlierIdle
    /\ LinkIdle
    /\ SyncIdle

\* lines 183-191: the seed is resolved; {} is returned when it is missing
ResolveSeed ==
    /\ cluster_pc = "start"
    /\ LET resolved_seed == ResolveOn(page_status, SeedLang, seed_title)
       IN  IF resolved_seed = <<>>
           THEN /\ cluster' = <<>>
                /\ to_visit' = <<>>
                /\ cluster_pc' = "done"
           ELSE /\ cluster' = (SeedLang :> resolved_seed)
                /\ to_visit' = <<<<SeedLang, resolved_seed>>>>
                /\ cluster_pc' = "loop"
    /\ UNCHANGED <<page_status, page_langlinks, seed_title, visited, expanded, enqueued>>
    /\ UNCHANGED <<earlierVars, linkVars, syncVars>>

\* lines 193-227, one iteration of the loop: a pair is popped, dropped when
\* it was visited, expanded otherwise
Visit ==
    /\ cluster_pc = "loop"
    /\ to_visit # <<>>
    /\ LET pair == to_visit[Len(to_visit)]
           rest == SubSeq(to_visit, 1, Len(to_visit) - 1)
           resolved_title == ResolveOn(page_status, pair[1], pair[2])
           updated == IF resolved_title # pair[2]
                      THEN DictPut(cluster, pair[1], resolved_title)
                      ELSE cluster
       IN  IF pair \in visited
           THEN /\ to_visit' = rest
                /\ UNCHANGED <<cluster, visited, expanded, enqueued>>
           ELSE /\ visited' = visited \cup {pair}
                /\ expanded' = Append(expanded, pair)
                /\ IF resolved_title = <<>>
                   THEN /\ to_visit' = rest
                        /\ UNCHANGED <<cluster, enqueued>>
                   ELSE \E order \in
                              Orders(DOMAIN page_langlinks[<<pair[1], resolved_title>>]) :
                           LET st == FollowLinks(
                                         [cluster |-> updated, to_visit |-> rest,
                                          enqueued |-> enqueued],
                                         page_langlinks[<<pair[1], resolved_title>>],
                                         order, page_status)
                           IN  /\ cluster' = st.cluster
                               /\ to_visit' = st.to_visit
                               /\ enqueued' = st.enqueued
    /\ UNCHANGED <<page_status, page_langlinks, seed_title, cluster_pc>>
    /\ UNCHANGED <<earlierVars, linkVars, syncVars>>

\* lines 192 and 228: to_visit is empty, the cluster is returned
ReturnCluster ==
    /\ cluster_pc = "loop"
    /\ to_visit = <<>>
    /\ cluster_pc' = "done"
    /\ UNCHANGED <<page_status, page_langlinks, seed_title, cluster, to_visit, visited,
                   expanded, enqueued>>
    /\ UNCHANGED <<earlierVars, linkVars, syncVars>>

ClusterNext == ResolveSeed \/ Visit \/ ReturnCluster

\* the loop is the only thread of the script: it takes its next step
SpecCluster == ClusterInit /\ [][ClusterNext]_vars /\ WF_vars(ClusterNext)

(***************************************************************************)
(* Claims about build_cluster.                                             *)
(***************************************************************************)
\* no element of the sequence occurs twice
NoRepeat(seq) == \A i, j \in DOMAIN seq : seq[i] = seq[j] => i = j

\* what holds at every step of build_cluster
ClusterSafety ==
    /\ NoRepeat(expanded)
    /\ NoRepeat([i \in DOMAIN enqueued |-> enqueued[i][1]])
    /\ \A i \in DOMAIN enqueued : enqueued[i][1] # SeedLang
    /\ DOMAIN cluster \subseteq SyncLangs
    /\ \A l \in DOMAIN cluster : page_status[<<l, cluster[l]>>] = "page"
    /\ (cluster_pc = "done" /\ ResolveOn(page_status, SeedLang, seed_title) = <<>>)
          => cluster = <<>>

\* C28 -- build_cluster returns for every set of pages, with langlinks in
\* cycles and with redirects: a (language, title) pair is expanded at most
\* once, a language is enqueued only when the cluster does not hold it yet,
\* the cluster gives a language one title, of a page that exists, and it
\* is empty when the seed page does not exist.
C28_TerminatesWithExistingPages == []ClusterSafety /\ <>(cluster_pc = "done")

\* a cycle of langlinks through a redirect was followed to the end
C28_Witness ==
    /\ cluster_pc = "done"
    /\ page_status[<<L_en, T_R>>] = "redirect"
    /\ L_en \in DOMAIN page_langlinks[<<L_fr, T_P>>]
    /\ page_langlinks[<<L_fr, T_P>>][L_en] = T_R
    /\ L_fr \in DOMAIN page_langlinks[<<L_en, T_P>>]
    /\ DOMAIN cluster = SyncLangs
    /\ cluster[L_en] = T_P
    /\ Len(expanded) = 3

=============================================================================
